---- MODULE Spec2Model ----
(***************************************************************************)
(* Finance tracker: the portfolio ledger update engine                     *)
(* (backend/main.py process_transaction, logic/gsheets_handler.py) and the *)
(* inference invoker (logic/ai_processor.py AIProcessor.process_transaction*)
(* retry / fallback loop).                                                 *)
(*                                                                         *)
(* Numbers.  Python floats are modelled as exact rationals <<n, d>> with   *)
(* d > 0 in lowest terms; floating-point rounding error is not modelled.   *)
(* Python's None, where a number is expected, is <<0, 0>>; an empty sheet  *)
(* cell ('') is the same value.  None, where a string is expected, is the  *)
(* string NoneStr.                                                         *)
(***************************************************************************)
EXTENDS Integers, Sequences, FiniteSets, TLC

VARIABLES
    ledger,      \* rows of the Transactions tab, in append order
    portfolio,   \* rows of the Investments tab, in append order
    today,       \* what datetime.now().strftime("%Y-%m-%d") returns
    last,        \* the request process_transaction handled last, and how it ended
    nreq,        \* number of requests handled so far
    updates,     \* arguments of the update_investment calls that returned, in order
    ipc,         \* inference invoker: position in the retry / fallback loop
    mi,          \* inference invoker: index into self.models of model_name
    attempt,     \* inference invoker: the retry loop's attempt
    retry_delay, \* inference invoker: seconds the next sleep will wait
    response,    \* inference invoker: the response, NoneStr while there is none
    last_error,  \* inference invoker: the exception caught last, NoErr if none
    raised,      \* inference invoker: the exception the loop ended with, NoErr if none
    calls,       \* inference invoker: generate_content calls made, in order
    sleeps,      \* inference invoker: asyncio.sleep waits made, in order
    npc,         \* response normalizer: "idle" before it ran, "done" after
    nresp,       \* response normalizer: the response it was given
    nrec,        \* response normalizer: the record it returned
    nexc,        \* response normalizer: the exception that left it, "" if none
    nfed,        \* response normalizer: the record whose JSON it was given again
    fpc,         \* amount normalizer: "idle" before _parse_float ran, "done" after
    fvalue,      \* amount normalizer: the value _parse_float was given
    fresult,     \* amount normalizer: [exc, v], what it raised or returned
    cached_rate,     \* rate service: _cached_rate, None while unset
    cache_timestamp, \* rate service: _cache_timestamp, NoTime while unset
    FALLBACK_RATE,   \* rate service: the module's fallback constant
    fallback_set,    \* rate service: the rate set_fallback_rate got last, None if never called
    clock,           \* rate service: what datetime.now() returns, in half hours
    rcall,           \* rate service: each caller's call of get_usd_to_idr_rate
    stores,          \* rate service: the cache writes made, in order
    nrate,           \* rate service: number of calls begun
    tasks,           \* webhook: the coroutine of each task, serving one update
    running,         \* webhook: the task that holds the event loop, 0 if none
    nupd             \* webhook: number of updates received

ledgerVars  == <<ledger, portfolio, today, last, nreq, updates>>
invokerVars == <<ipc, mi, attempt, retry_delay, response, last_error, raised, calls, sleeps>>
normalizerVars == <<npc, nresp, nrec, nexc, nfed>>
rateVars    == <<cached_rate, cache_timestamp, FALLBACK_RATE, fallback_set, clock, rcall, stores, nrate>>
webhookVars == <<tasks, running, nupd>>
parseVars   == <<fpc, fvalue, fresult>>
vars        == <<ledgerVars, invokerVars, normalizerVars, rateVars, webhookVars, parseVars>>

\* what the ledger engine's actions leave alone, and what the invoker's do
notLedger     == <<invokerVars, normalizerVars, rateVars, parseVars>>
notInvoker    == <<ledgerVars, normalizerVars, rateVars, webhookVars, parseVars>>
notNormalizer == <<ledgerVars, invokerVars, rateVars, webhookVars, parseVars>>
notRate       == <<ledgerVars, invokerVars, normalizerVars, webhookVars, parseVars>>
notParse      == <<ledgerVars, invokerVars, normalizerVars, rateVars, webhookVars>>

---------------------------------------------------------------------------
(* Rational arithmetic *)

RECURSIVE Gcd(_, _)
Gcd(a, b) == IF b = 0 THEN a ELSE Gcd(b, a % b)

Abs(x) == IF x < 0 THEN -x ELSE x

Norm(n, d) ==
    LET g == Gcd(Abs(n), Abs(d))
        s == IF d < 0 THEN -1 ELSE 1
    IN  <<(s * n) \div g, (s * d) \div g>>

None == <<0, 0>>
IsNone(x) == x[2] = 0
R(n) == <<n, 1>>
Q(n, d) == Norm(n, d)

RAdd(x, y) == Norm(x[1] * y[2] + y[1] * x[2], x[2] * y[2])
RNeg(x)    == <<-x[1], x[2]>>
RSub(x, y) == RAdd(x, RNeg(y))
RMul(x, y) == Norm(x[1] * y[1], x[2] * y[2])
RDiv(x, y) == Norm(x[1] * y[2], x[2] * y[1])
RGt0(x)    == x[1] > 0

\* Python truthiness of a number-or-None (or of a sheet cell)
Truthy(x) == ~IsNone(x) /\ x[1] # 0

\* Python truthiness of a string-or-None
NoneStr == "<None>"
TruthyStr(s) == s # NoneStr /\ s # ""

\* format(x, ',.2f') read back as a number: x rounded to 2 decimals, ties to even
Fmt2(x) ==
    LET n == x[1] * 100
        d == x[2]
        f == n \div d
        r == n - f * d
        up == \/ 2 * r > d
              \/ (2 * r = d /\ f % 2 = 1)
    IN  Norm(IF up THEN f + 1 ELSE f, 100)

---------------------------------------------------------------------------
(* The spreadsheet store: logic/gsheets_handler.py *)

\* _safe_float: a falsy cell reads as 0.0, a number as itself
SafeFloat(value) == IF ~Truthy(value) THEN R(0) ELSE value

\* a row of the Transactions tab, as append_transaction lays it out
Entry(date, account, category, subcategory, note, amount, type, status) ==
    [date |-> date, account |-> account, category |-> category,
     subcategory |-> subcategory, note |-> note, amount |-> amount,
     type |-> type, status |-> status]

\* a note string, kept by its parts: "<head> <arg> (<part>) (<cur>)" and, for
\* a converted regular transaction, the " ($<usd>)" annotation
Note(head, arg, part, cur, usd) ==
    [head |-> head, arg |-> arg, part |-> part, cur |-> cur, usd |-> usd]

AppendTransaction(led, entry) == Append(led, entry)

\* a row of the Investments tab
Row(purchase_date, account, symbol, shares, avg, tv_usd, tv_idr, realized_pl) ==
    [purchase_date |-> purchase_date, account |-> account, symbol |-> symbol,
     shares |-> shares, avg |-> avg, tv_usd |-> tv_usd, tv_idr |-> tv_idr,
     realized_pl |-> realized_pl]

\* get_investments: one dict per row with a truthy Symbol.  The dict has no
\* 'currency' key.
GetInvestments(pf) ==
    LET rows == SelectSeq(pf, LAMBDA row : TruthyStr(row.symbol))
    IN  [i \in 1..Len(rows) |->
            [purchase_date   |-> rows[i].purchase_date,
             account         |-> rows[i].account,
             symbol          |-> rows[i].symbol,
             shares          |-> SafeFloat(rows[i].shares),
             avg_price       |-> SafeFloat(rows[i].avg),
             total_value_usd |-> IF Truthy(rows[i].tv_usd)
                                 THEN SafeFloat(rows[i].tv_usd) ELSE None,
             total_value_idr |-> SafeFloat(rows[i].tv_idr),
             realized_pl     |-> SafeFloat(rows[i].realized_pl)]]

\* index of the first element of seq whose symbol is symbol, 0 if there is none
RECURSIVE FirstFrom(_, _, _)
FirstFrom(seq, symbol, i) ==
    IF i > Len(seq) THEN 0
    ELSE IF seq[i].symbol = symbol THEN i
    ELSE FirstFrom(seq, symbol, i + 1)

FindSymbol(seq, symbol) == FirstFrom(seq, symbol, 1)

\* the arguments of one update_investment call
UpdArgs(symbol, shares_change, price, realized_pl, account, purchase_date, currency, exchange_rate) ==
    [symbol |-> symbol, shares_change |-> shares_change, price |-> price,
     realized_pl |-> realized_pl, account |-> account,
     purchase_date |-> purchase_date, currency |-> currency,
     exchange_rate |-> exchange_rate]

\* a variant that takes the plain mean of the old average and the new price
NewAvg_PlainMean(current_shares, current_avg, shares_change, price) ==
    IF RGt0(shares_change)
    THEN RDiv(RAdd(current_avg, price), R(2))
    ELSE current_avg

\* a variant that recomputes the average on every update, sells included
NewAvg_AlsoOnSell(current_shares, current_avg, shares_change, price) ==
    LET new_shares == RAdd(current_shares, shares_change)
    IN  IF RGt0(new_shares)
        THEN RDiv(RAdd(RMul(current_shares, current_avg),
                       RMul(shares_change, price)), new_shares)
        ELSE price

\* new_avg of a found row: recomputed when buying, kept when selling
NewAvg(current_shares, current_avg, shares_change, price) ==
    LET new_shares == RAdd(current_shares, shares_change)
    IN  IF RGt0(shares_change)
        THEN IF RGt0(new_shares)
             THEN RDiv(RAdd(RMul(current_shares, current_avg),
                            RMul(shares_change, price)), new_shares)
             ELSE price
        ELSE current_avg

\* update_investment on a row that holds the symbol
UpdateFound(pf, i, u) ==
    LET row            == pf[i]
        current_shares == SafeFloat(row.shares)
        current_avg    == SafeFloat(row.avg)
        new_shares     == RAdd(current_shares, u.shares_change)
        new_avg        == NewAvg(current_shares, current_avg, u.shares_change, u.price)
        new_pl         == RAdd(SafeFloat(row.realized_pl), u.realized_pl)
        existing_currency == IF Truthy(row.tv_usd) THEN "USD" ELSE "IDR"
        total_value_native == RMul(new_shares, u.price)
        total_value_usd == IF existing_currency = "USD"
                           THEN total_value_native ELSE None
        total_value_idr == IF existing_currency = "USD"
                           THEN RMul(total_value_native, u.exchange_rate)
                           ELSE total_value_native
    IN  [pf EXCEPT ![i] = [row EXCEPT !.shares = new_shares,
                                      !.avg = new_avg,
                                      !.tv_usd = total_value_usd,
                                      !.tv_idr = total_value_idr,
                                      !.realized_pl = new_pl]]

\* the cell append_row leaves for a string-or-None: None leaves it empty
Cell(s) == IF s = NoneStr THEN "" ELSE s

\* update_investment when no row holds the symbol and shares_change > 0
UpdateNew(pf, u, now) ==
    LET purchase_date == IF u.purchase_date = "" THEN now ELSE u.purchase_date
        total_value_native == RMul(u.shares_change, u.price)
        total_value_usd == IF u.currency = "USD" THEN total_value_native ELSE None
        total_value_idr == IF u.currency = "USD"
                           THEN RMul(total_value_native, u.exchange_rate)
                           ELSE total_value_native
    IN  Append(pf, Row(purchase_date, u.account, Cell(u.symbol), u.shares_change,
                       u.price, total_value_usd, total_value_idr, R(0)))

\* update_investment.  raised: the call ends in a TypeError, which arithmetic
\* or comparison on None raises before anything is written.
UpdateInvestment(pf, u, now) ==
    LET i == FindSymbol(pf, u.symbol)
    IN  IF i > 0
        THEN IF IsNone(u.shares_change) \/ IsNone(u.price)
             THEN [pf |-> pf, raised |-> TRUE]
             ELSE [pf |-> UpdateFound(pf, i, u), raised |-> FALSE]
        ELSE IF IsNone(u.shares_change)
             THEN [pf |-> pf, raised |-> TRUE]
             ELSE IF RGt0(u.shares_change)
                  THEN IF IsNone(u.price)
                       THEN [pf |-> pf, raised |-> TRUE]
                       ELSE [pf |-> UpdateNew(pf, u, now), raised |-> FALSE]
                  ELSE [pf |-> pf, raised |-> FALSE]

---------------------------------------------------------------------------
(* The exchange-rate helper the orchestrator uses: logic/exchange_rate.py *)

convert_usd_to_idr(usd_amount, rate) == RMul(usd_amount, rate)

---------------------------------------------------------------------------
(* The orchestrator and the ledger update engine: main.py process_transaction *)

\* the TransactionData fields process_transaction reads
TransactionData(amount, category, subcategory, account, note, transaction_type, is_flagged, investment_symbol, shares, price_per_share, destination_account, currency) ==
    [amount |-> amount, category |-> category, subcategory |-> subcategory,
     account |-> account, note |-> note, transaction_type |-> transaction_type,
     is_flagged |-> is_flagged, investment_symbol |-> investment_symbol,
     shares |-> shares, price_per_share |-> price_per_share,
     destination_account |-> destination_account, currency |-> currency]

\* one store call of a request: an append_transaction or an update_investment
BlankNote  == Note("", "", "", "", None)
BlankEntry == Entry("", "", "", "", BlankNote, None, "", "")
BlankUpd   == UpdArgs("", None, None, None, "", "", "", None)
AppendOp(entry) == [op |-> "append", entry |-> entry, upd |-> BlankUpd]
UpdateOp(upd)   == [op |-> "update", entry |-> BlankEntry, upd |-> upd]

\* status = "Flagged" if transaction_data.is_flagged else "Normal"
StatusOf(td) == IF td.is_flagged THEN "Flagged" ELSE "Normal"

\* a variant that takes one share whenever the price cannot give the shares
BuyShares_OneIfUnusable(td) ==
    IF IsNone(td.shares) /\ ~IsNone(td.price_per_share) /\ RGt0(td.price_per_share)
    THEN RDiv(td.amount, td.price_per_share)
    ELSE IF IsNone(td.shares)
    THEN R(1)
    ELSE td.shares

\* Trade_Buy: shares and price after the reconciliation
BuyShares(td) ==
    IF IsNone(td.shares) /\ ~IsNone(td.price_per_share) /\ RGt0(td.price_per_share)
    THEN RDiv(td.amount, td.price_per_share)
    ELSE IF IsNone(td.shares) /\ IsNone(td.price_per_share)
    THEN R(1)
    ELSE td.shares

\* a variant that passes the price on as the record gives it
BuyPrice_AsGiven(td) == td.price_per_share

BuyPrice(td) ==
    IF IsNone(td.shares) /\ ~IsNone(td.price_per_share) /\ RGt0(td.price_per_share)
    THEN td.price_per_share
    ELSE IF IsNone(td.shares) /\ IsNone(td.price_per_share)
    THEN td.amount
    ELSE IF IsNone(td.price_per_share) /\ ~IsNone(td.shares) /\ RGt0(td.shares)
    THEN RDiv(td.amount, td.shares)
    ELSE td.price_per_share

\* Trade_Buy: one Asset entry, then the position update
PlanBuy(td, exchange_rate, current_date) ==
    LET currency   == td.currency
        total_cost == td.amount
        shares     == BuyShares(td)
        price      == BuyPrice(td)
        amount_idr == IF currency = "USD"
                      THEN convert_usd_to_idr(total_cost, exchange_rate)
                      ELSE total_cost
    IN  [raises |-> FALSE,
         ops |-> <<AppendOp(Entry(current_date, td.account, td.category,
                                  td.subcategory,
                                  Note("Buy", td.investment_symbol, "", currency, None),
                                  amount_idr, "Asset", StatusOf(td))),
                   UpdateOp(UpdArgs(td.investment_symbol, shares, price, R(0),
                                    td.account, current_date, currency,
                                    exchange_rate))>>]

\* Trade_Sell: the position the sale is split against, 0 if there is none
SellInv(td, pf) == FindSymbol(GetInvestments(pf), td.investment_symbol)

\* inv.get('currency', 'IDR') if inv else currency
SellCurrency(td, pf) ==
    LET portfolio_ == GetInvestments(pf)
        i          == SellInv(td, pf)
    IN  IF i > 0
        THEN IF "currency" \in DOMAIN portfolio_[i]
             THEN portfolio_[i].currency ELSE "IDR"
        ELSE td.currency

\* a variant that never consults the position: one share when both are missing
SellShares_Placeholder(td, pf) ==
    IF IsNone(td.shares) /\ ~IsNone(td.price_per_share) /\ RGt0(td.price_per_share)
    THEN RDiv(td.amount, td.price_per_share)
    ELSE IF IsNone(td.shares) /\ IsNone(td.price_per_share)
    THEN R(1)
    ELSE td.shares

\* Trade_Sell: shares and price after the reconciliation
SellShares(td, pf) ==
    LET i == SellInv(td, pf)
    IN  IF IsNone(td.shares) /\ ~IsNone(td.price_per_share) /\ RGt0(td.price_per_share)
        THEN RDiv(td.amount, td.price_per_share)
        ELSE IF IsNone(td.price_per_share) /\ ~IsNone(td.shares) /\ RGt0(td.shares)
        THEN td.shares
        ELSE IF IsNone(td.shares) /\ IsNone(td.price_per_share)
        THEN IF i > 0 /\ Truthy(GetInvestments(pf)[i].avg_price)
             THEN RDiv(td.amount, GetInvestments(pf)[i].avg_price)
             ELSE R(1)
        ELSE td.shares

SellPrice(td, pf) ==
    LET i == SellInv(td, pf)
    IN  IF IsNone(td.shares) /\ ~IsNone(td.price_per_share) /\ RGt0(td.price_per_share)
        THEN td.price_per_share
        ELSE IF IsNone(td.price_per_share) /\ ~IsNone(td.shares) /\ RGt0(td.shares)
        THEN RDiv(td.amount, td.shares)
        ELSE IF IsNone(td.shares) /\ IsNone(td.price_per_share)
        THEN IF i > 0 /\ Truthy(GetInvestments(pf)[i].avg_price)
             THEN GetInvestments(pf)[i].avg_price
             ELSE td.amount
        ELSE td.price_per_share

\* a variant that takes a cost basis of zero when there is no position
AvgBuyPrice_ZeroWithoutRow(td, pf) ==
    LET i == SellInv(td, pf)
    IN  IF i > 0 THEN GetInvestments(pf)[i].avg_price ELSE R(0)

\* avg_buy_price = inv['avg_price'] if inv else price
AvgBuyPrice(td, pf) ==
    LET i == SellInv(td, pf)
    IN  IF i > 0 THEN GetInvestments(pf)[i].avg_price ELSE SellPrice(td, pf)

\* a variant that takes the cost basis from the sale price
BaseCost_AtSalePrice(td, pf) == RMul(SellShares(td, pf), SellPrice(td, pf))

BaseCost(td, pf) == RMul(SellShares(td, pf), AvgBuyPrice(td, pf))

\* a variant that books the full sale proceeds as the gain
CapitalGain_FullProceeds(td, pf) == td.amount

CapitalGain(td, pf) == RSub(td.amount, BaseCost(td, pf))

\* Trade_Sell: the Asset entry of base_cost, the Income entry of capital_gain,
\* then the position update.  shares * avg_buy_price raises a TypeError on None,
\* before anything is written.
PlanSell(td, exchange_rate, pf, current_date) ==
    LET inv_currency == SellCurrency(td, pf)
        shares       == SellShares(td, pf)
        price        == SellPrice(td, pf)
        base_cost    == BaseCost(td, pf)
        capital_gain == CapitalGain(td, pf)
        sell_exchange_rate == IF inv_currency = "USD" THEN exchange_rate ELSE R(1)
        base_cost_idr == IF inv_currency = "USD"
                         THEN convert_usd_to_idr(base_cost, sell_exchange_rate)
                         ELSE base_cost
        capital_gain_idr == IF inv_currency = "USD"
                            THEN convert_usd_to_idr(capital_gain, sell_exchange_rate)
                            ELSE capital_gain
    IN  IF IsNone(shares) \/ IsNone(AvgBuyPrice(td, pf))
        THEN [raises |-> TRUE, ops |-> <<>>]
        ELSE [raises |-> FALSE,
              ops |-> <<AppendOp(Entry(current_date, td.account, td.category,
                                       td.subcategory,
                                       Note("Sell", td.investment_symbol,
                                            "Return of Capital", inv_currency, None),
                                       base_cost_idr, "Asset", StatusOf(td))),
                        AppendOp(Entry(current_date, td.account, "Income",
                                       "Capital Gains",
                                       Note("Sell", td.investment_symbol, "Gain",
                                            inv_currency, None),
                                       capital_gain_idr, "Income", StatusOf(td))),
                        UpdateOp(UpdArgs(td.investment_symbol, RNeg(shares), price,
                                         capital_gain, "", "", inv_currency,
                                         sell_exchange_rate))>>]

\* destination = transaction_data.destination_account or "Unknown"
Destination(td) ==
    IF TruthyStr(td.destination_account) THEN td.destination_account ELSE "Unknown"

\* a variant that books the credit entry on the source account too
PlanTransfer_CreditOnSource(td, current_date) ==
    LET destination == Destination(td)
    IN  [raises |-> FALSE,
         ops |-> <<AppendOp(Entry(current_date, td.account, td.category,
                                  td.subcategory,
                                  Note("Transfer to", destination, "", "", None),
                                  td.amount, "Transfer", StatusOf(td))),
                   AppendOp(Entry(current_date, td.account, td.category,
                                  td.subcategory,
                                  Note("Transfer from", td.account, "", "", None),
                                  td.amount, "Transfer", StatusOf(td)))>>]

\* Transfer: the debit entry on the source, then the credit entry on the destination
PlanTransfer(td, current_date) ==
    LET destination == Destination(td)
    IN  [raises |-> FALSE,
         ops |-> <<AppendOp(Entry(current_date, td.account, td.category,
                                  td.subcategory,
                                  Note("Transfer to", destination, "", "", None),
                                  td.amount, "Transfer", StatusOf(td))),
                   AppendOp(Entry(current_date, destination, td.category,
                                  td.subcategory,
                                  Note("Transfer from", td.account, "", "", None),
                                  td.amount, "Transfer", StatusOf(td)))>>]

\* Expense, Income (and any other kind): one entry, converted when in USD
PlanRegular(td, text, exchange_rate, current_date) ==
    LET base_note    == IF TruthyStr(td.note) THEN td.note ELSE text
        final_amount == IF td.currency = "USD"
                        THEN convert_usd_to_idr(td.amount, exchange_rate)
                        ELSE td.amount
        final_note   == IF td.currency = "USD"
                        THEN Note(IF TruthyStr(base_note) THEN base_note ELSE "",
                                  "", "", "", Fmt2(td.amount))
                        ELSE Note(base_note, "", "", "", None)
    IN  [raises |-> FALSE,
         ops |-> <<AppendOp(Entry(current_date, td.account, td.category,
                                  td.subcategory, final_note, final_amount,
                                  td.transaction_type, StatusOf(td)))>>]

\* the store calls process_transaction makes for a record, in order
Plan(td, text, exchange_rate, pf, current_date) ==
    IF td.transaction_type = "Trade_Buy" THEN PlanBuy(td, exchange_rate, current_date)
    ELSE IF td.transaction_type = "Trade_Sell"
    THEN PlanSell(td, exchange_rate, pf, current_date)
    ELSE IF td.transaction_type = "Transfer" THEN PlanTransfer(td, current_date)
    ELSE PlanRegular(td, text, exchange_rate, current_date)

\* the store calls made one after the other, up to the first that raises
RECURSIVE Exec(_, _, _, _, _)
Exec(ops, k, led, pf, now) ==
    IF k > Len(ops)
    THEN [ledger |-> led, portfolio |-> pf, ok |-> TRUE]
    ELSE IF ops[k].op = "append"
    THEN Exec(ops, k + 1, AppendTransaction(led, ops[k].entry), pf, now)
    ELSE LET u == UpdateInvestment(pf, ops[k].upd, now)
         IN  IF u.raised
             THEN [ledger |-> led, portfolio |-> pf, ok |-> FALSE]
             ELSE Exec(ops, k + 1, led, u.pf, now)

\* a variant that fetches the rate for every record
RateNeeded_Always(td) == TRUE

\* exchange_rate is fetched only for a record in USD
RateNeeded(td) == td.currency = "USD"

---------------------------------------------------------------------------
(* The dashboard summary: main.py get_summary over get_transactions *)

\* get_transactions with no year and no month: the rows that have a date,
\* the amount read with float(... or 0)
GetTransactions(led) ==
    LET rows == SelectSeq(led, LAMBDA row : row.date # "")
    IN  [i \in 1..Len(rows) |->
            [date |-> rows[i].date, account |-> rows[i].account,
             category |-> rows[i].category, subcategory |-> rows[i].subcategory,
             description |-> rows[i].note,
             amount |-> IF Truthy(rows[i].amount) THEN rows[i].amount ELSE R(0),
             type |-> rows[i].type, status |-> rows[i].status]]

\* sum(t['amount'] for t in transactions if t['type'] == type)
RECURSIVE SumOfType(_, _, _)
SumOfType(transactions, type, k) ==
    IF k = 0 THEN R(0)
    ELSE RAdd(SumOfType(transactions, type, k - 1),
              IF transactions[k].type = type THEN transactions[k].amount ELSE R(0))

\* the totals get_summary returns
TotalIncome(led) ==
    SumOfType(GetTransactions(led), "Income", Len(GetTransactions(led)))

TotalExpense(led) ==
    SumOfType(GetTransactions(led), "Expense", Len(GetTransactions(led)))

---------------------------------------------------------------------------
(* Bounds and inputs of the ledger specification *)

MaxRequests == 3

Dates    == <<"2024-01-01", "2024-01-02">>
Rates    == {R(2), R(3)}

\* the rate the service answers with: the cached answer is kept for an hour,
\* so the rate is taken to change with the day
RateOn(d) == IF d = Dates[1] THEN R(2) ELSE R(3)

\* records the interpretation can hand over: [td, text]
Req(td, text) == [td |-> td, text |-> text]

Trade(kind, symbol, currency, amount, shares, price, flagged) ==
    Req(TransactionData(amount, "Investment", "Stocks", "RDN", kind, kind,
                        flagged, symbol, shares, price, NoneStr, currency), "msg")

BuyRequests ==
    {Trade("Trade_Buy", "ARCI", "IDR", R(4), R(2), R(2), FALSE),
     Trade("Trade_Buy", "ARCI", "IDR", R(6), None, R(3), TRUE),
     Trade("Trade_Buy", "AAPL", "USD", R(4), R(2), R(2), FALSE)}

SellRequests ==
    {Trade("Trade_Sell", "ARCI", "IDR", R(5), R(1), R(5), TRUE),
     Trade("Trade_Sell", "ARCI", "IDR", R(6), R(3), R(2), FALSE),
     Trade("Trade_Sell", "AAPL", "USD", R(3), R(1), R(3), FALSE)}

TransferRequests ==
    {Req(TransactionData(R(5), "Transfer", "Internal", "BCA", "move", "Transfer",
                         dest = NoneStr, NoneStr, None, None, dest, "IDR"), "msg") :
        dest \in {"Jago", NoneStr}}

RegularRequests ==
    {Req(TransactionData(Q(1, 8), "Food", "Coffee", "BCA", "", "Expense",
                         FALSE, NoneStr, None, None, NoneStr, "USD"), NoneStr),
     Req(TransactionData(R(9), "Salary", "Bonus", "Jago", "bonus", "Income",
                         TRUE, NoneStr, None, None, NoneStr, "IDR"), "msg")}

Requests == BuyRequests \cup SellRequests \cup TransferRequests \cup RegularRequests

NoRequest ==
    [td |-> TransactionData(None, "", "", "", "", "", FALSE, "", None, None, "", ""),
     text |-> "", exchange_rate |-> None, rate_calls |-> 0, outcome |-> "none",
     nBefore |-> 0, before |-> <<>>, date |-> ""]

---------------------------------------------------------------------------
(* The ledger specification: requests handled one at a time *)

\* process_transaction for the record td interpreted from text, when the rate
\* service answers rate
ProcessTransaction(td, text, rate) ==
    /\ nreq < MaxRequests
    /\ LET current_date  == today
           exchange_rate == IF RateNeeded(td) THEN rate ELSE R(1)
           plan == Plan(td, text, exchange_rate, portfolio, current_date)
           res  == Exec(plan.ops, 1, ledger, portfolio, today)
       IN  /\ ledger' = res.ledger
           /\ portfolio' = res.portfolio
           /\ last' = [td |-> td, text |-> text, exchange_rate |-> exchange_rate,
                       rate_calls |-> IF RateNeeded(td) THEN 1 ELSE 0,
                       outcome |-> IF plan.raises \/ ~res.ok
                                   THEN "error" ELSE "success",
                       nBefore |-> Len(ledger), before |-> portfolio,
                       date |-> current_date]
           /\ updates' = IF ~plan.raises /\ res.ok /\ Len(plan.ops) > 0
                              /\ plan.ops[Len(plan.ops)].op = "update"
                           THEN Append(updates, plan.ops[Len(plan.ops)].upd)
                           ELSE updates
    /\ nreq' = nreq + 1
    /\ UNCHANGED <<today, notLedger, webhookVars>>

\* a request arrives; the rate service is asked only when the record needs it
HandleRequest ==
    \E r \in Requests :
        ProcessTransaction(r.td, r.text,
                           IF RateNeeded(r.td) THEN RateOn(today) ELSE R(1))

\* midnight passes
NextDay ==
    /\ today = Dates[1]
    /\ today' = Dates[2]
    /\ UNCHANGED <<ledger, portfolio, last, nreq, updates, notLedger, webhookVars>>

---------------------------------------------------------------------------
(* The trade specification: the same engine, handed trade records that leave *)
(* out shares, price or the symbol                                           *)

TradeInputs ==
    {Trade("Trade_Buy", "ARCI", "IDR", R(6), None, R(3), FALSE),
     Trade("Trade_Buy", "ARCI", "IDR", R(6), R(3), None, FALSE),
     Trade("Trade_Buy", "ARCI", "IDR", R(6), None, None, FALSE),
     Trade("Trade_Buy", "ARCI", "IDR", R(6), None, R(0), FALSE),
     Trade("Trade_Buy", "ARCI", "IDR", R(6), None, R(-3), FALSE),
     Trade("Trade_Buy", "ARCI", "IDR", R(5), R(2), R(2), TRUE),
     Trade("Trade_Buy", NoneStr, "IDR", R(4), R(2), R(2), FALSE),
     Trade("Trade_Sell", "ARCI", "IDR", R(6), None, None, FALSE),
     Trade("Trade_Sell", "ARCI", "IDR", R(4), R(1), None, FALSE)}

\* a trade request arrives
HandleTrade ==
    \E r \in TradeInputs : ProcessTransaction(r.td, r.text, R(1))

---------------------------------------------------------------------------
(* The inference invoker: AIProcessor.process_transaction's model loop *)

models == <<"gemini-3-flash", "gemini-2.5-flash", "gemini-2.5-flash-lite">>
max_retries == 2
initial_delay == 2

\* str.lower() on the characters the model's strings use
Lower(c) ==
    CASE c = "Q" -> "q" [] c = "R" -> "r" [] c = "A" -> "a" [] c = "T" -> "t"
      [] c = "E" -> "e" [] c = "K" -> "k" [] c = "J" -> "j" [] c = "P" -> "p"
      [] OTHER -> c

LowerStr(s) == [i \in 1..Len(s) |-> Lower(s[i])]

\* t in s
Contains(s, t) ==
    \E i \in 1..(Len(s) - Len(t) + 1) : SubSeq(s, i, i + Len(t) - 1) = t

\* a variant that takes every error for a rate limit
IsRateLimit_Any(e) == TRUE

\* the rate-limit signature: '429' in str(e), or 'quota', 'rate' or
\* 'resource_exhausted' in str(e).lower()
IsRateLimit(e) ==
    \/ Contains(e, <<"4", "2", "9">>)
    \/ Contains(LowerStr(e), <<"q", "u", "o", "t", "a">>)
    \/ Contains(LowerStr(e), <<"r", "a", "t", "e">>)
    \/ Contains(LowerStr(e), <<"r", "e", "s", "o", "u", "r", "c", "e", "_",
                               "e", "x", "h", "a", "u", "s", "t", "e", "d">>)

NoErr == <<>>

\* str(e) of the exceptions a backend call can raise
Errors ==
    {<<"4", "2", "9">>,
     <<"Q", "u", "o", "t", "a">>,
     <<"g", "e", "n", "e", "r", "a", "t", "e">>,
     <<"5", "0", "3">>,
     <<"d", "e", "n", "i", "e", "d">>}

Responses == {"{}", "garbage"}

GenericError == <<"F", "a", "i", "l", "e", "d">>

\* a variant that raises the generic exception whatever was caught
RaiseLast_Generic(err) == GenericError

\* raise last_error or Exception("Failed to generate response from any model")
RaiseLast(err) == IF err # NoErr THEN err ELSE GenericError

\* a variant that goes from any model straight to the last fallback
Abandon_SkipsToLast(err) ==
    IF mi < Len(models)
    THEN /\ mi' = Len(models)
         /\ attempt' = 0
         /\ retry_delay' = initial_delay
         /\ ipc' = "call"
         /\ UNCHANGED raised
    ELSE /\ ipc' = "raised"
         /\ raised' = RaiseLast(err)
         /\ UNCHANGED <<mi, attempt, retry_delay>>

\* leaving the retry loop without a response, last_error being err: the next
\* model, or the raise after the last one
Abandon(err) ==
    IF mi < Len(models)
    THEN /\ mi' = mi + 1
         /\ attempt' = 0
         /\ retry_delay' = initial_delay
         /\ ipc' = "call"
         /\ UNCHANGED raised
    ELSE /\ ipc' = "raised"
         /\ raised' = RaiseLast(err)
         /\ UNCHANGED <<mi, attempt, retry_delay>>

\* the loop is entered
InvokeStart ==
    /\ ipc \in {"idle", "done", "raised"}
    /\ ipc' = "call"
    /\ mi' = 1
    /\ attempt' = 0
    /\ retry_delay' = initial_delay
    /\ response' = NoneStr
    /\ last_error' = NoErr
    /\ raised' = NoErr
    /\ calls' = <<>>
    /\ sleeps' = <<>>
    /\ UNCHANGED notInvoker

\* generate_content returns
CallSucceeds ==
    /\ ipc = "call"
    /\ \E r \in Responses :
        /\ response' = r
        /\ calls' = Append(calls, [model |-> models[mi], attempt |-> attempt,
                                   ok |-> TRUE, error |-> NoErr])
    /\ ipc' = "done"
    /\ UNCHANGED <<mi, attempt, retry_delay, last_error, raised, sleeps, notInvoker>>

\* generate_content raises e
CallFails ==
    /\ ipc = "call"
    /\ \E e \in Errors :
        /\ last_error' = e
        /\ calls' = Append(calls, [model |-> models[mi], attempt |-> attempt,
                                   ok |-> FALSE, error |-> e])
        /\ IF IsRateLimit(e) /\ attempt < max_retries - 1
           THEN /\ ipc' = "sleep"
                /\ UNCHANGED <<mi, attempt, retry_delay, raised>>
           ELSE Abandon(e)
    /\ UNCHANGED <<response, sleeps, notInvoker>>

\* a variant that tries the same attempt again after the wait
Sleep_SameAttempt ==
    /\ ipc = "sleep"
    /\ sleeps' = Append(sleeps, [model |-> models[mi], delay |-> retry_delay,
                                 after |-> Len(calls)])
    /\ retry_delay' = retry_delay * 2
    /\ attempt' = attempt
    /\ ipc' = "call"
    /\ UNCHANGED <<mi, response, last_error, raised, calls, notInvoker>>

\* a variant that keeps the delay as it is
Sleep_NoBackoff ==
    /\ ipc = "sleep"
    /\ sleeps' = Append(sleeps, [model |-> models[mi], delay |-> retry_delay,
                                 after |-> Len(calls)])
    /\ retry_delay' = retry_delay
    /\ attempt' = attempt + 1
    /\ ipc' = "call"
    /\ UNCHANGED <<mi, response, last_error, raised, calls, notInvoker>>

\* await asyncio.sleep(retry_delay) returns; the delay doubles and the loop
\* goes to the next attempt
Sleep ==
    /\ ipc = "sleep"
    /\ sleeps' = Append(sleeps, [model |-> models[mi], delay |-> retry_delay,
                                 after |-> Len(calls)])
    /\ retry_delay' = retry_delay * 2
    /\ attempt' = attempt + 1
    /\ ipc' = "call"
    /\ UNCHANGED <<mi, response, last_error, raised, calls, notInvoker>>

---------------------------------------------------------------------------
(* The amount normalizer: AIProcessor._parse_float.  A string is a sequence *)
(* of one-character strings over the characters the inputs below use        *)
(* (digits, '.', ',', '$', '-', ' ', letters, brackets); on these float()   *)
(* accepts exactly the signed decimal numerals.                             *)

DigitChars == <<"0", "1", "2", "3", "4", "5", "6", "7", "8", "9">>
IsDigit(c) == \E i \in 1..Len(DigitChars) : DigitChars[i] = c
DigitVal(c) == (CHOOSE i \in 1..Len(DigitChars) : DigitChars[i] = c) - 1

RECURSIVE Pow10(_)
Pow10(k) == IF k = 0 THEN 1 ELSE 10 * Pow10(k - 1)

\* the number a string of digits denotes
RECURSIVE DigitsValue(_)
DigitsValue(s) ==
    IF s = <<>> THEN 0
    ELSE 10 * DigitsValue(SubSeq(s, 1, Len(s) - 1)) + DigitVal(s[Len(s)])

\* str.replace(c, '') for a single character c
RemoveChar(s, c) == SelectSeq(s, LAMBDA x : x # c)

\* str.replace(a + b, '') for a two-character substring, scanning left to right
RECURSIVE RemovePair(_, _, _)
RemovePair(s, a, b) ==
    IF Len(s) < 2 THEN s
    ELSE LET hit == s[1] = a /\ s[2] = b
         IN  (IF hit THEN <<>> ELSE <<s[1]>>)
             \o RemovePair(IF hit THEN SubSeq(s, 3, Len(s)) ELSE Tail(s), a, b)

\* str.strip()
RECURSIVE Strip(_)
Strip(s) ==
    IF s = <<>> \/ (s[1] # " " /\ s[Len(s)] # " ") THEN s
    ELSE Strip(IF s[1] = " " THEN Tail(s) ELSE SubSeq(s, 1, Len(s) - 1))

\* the number an unsigned decimal numeral u denotes, negated if neg: [ok, v]
Numeral(u, neg) ==
    LET dots == {i \in 1..Len(u) : u[i] = "."}
        digs == {i \in 1..Len(u) : IsDigit(u[i])}
    IN  IF Cardinality(dots) <= 1 /\ digs \cup dots = 1..Len(u) /\ digs # {}
        THEN [ok |-> TRUE,
              v  |-> Norm((IF neg THEN -1 ELSE 1) * DigitsValue(SelectSeq(u, IsDigit)),
                          Pow10(IF dots = {} THEN 0
                                ELSE Len(u) - (CHOOSE i \in dots : TRUE)))]
        ELSE [ok |-> FALSE, v |-> None]

\* a stripped string t as a signed decimal numeral: [ok, v]
Signed(t) ==
    Numeral(IF Len(t) > 0 /\ t[1] \in {"-", "+"} THEN Tail(t) ELSE t,
            Len(t) > 0 /\ t[1] = "-")

\* float(s): [ok, v], ok false where Python raises ValueError
StrToFloat(s) == Signed(Strip(s))

\* a variant that does not lower-case the string
Cleaned_CaseSensitive(s) ==
    Strip(RemovePair(RemoveChar(RemoveChar(s, ","), "$"), "r", "p"))

\* the string _parse_float works on: lower-cased, ',' '$' 'rp' removed, stripped
Cleaned(s) ==
    Strip(RemovePair(RemoveChar(RemoveChar(LowerStr(s), ","), "$"), "r", "p"))

\* f times m, None where float() raised ValueError
Times(f, m) == IF f.ok THEN RMul(f.v, m) ELSE None

\* lines 165-169 on the cleaned string s: the suffix 'k', else 'jt', else none
Suffixed(s, k, jt) ==
    Times(StrToFloat(IF k THEN RemoveChar(s, "k")
                     ELSE IF jt THEN RemovePair(s, "j", "t")
                     ELSE s),
          IF k THEN R(1000) ELSE IF jt THEN R(1000000) ELSE R(1))

\* 'k' in s, 'jt' in s
HasK(s)  == \E i \in 1..Len(s) : s[i] = "k"
HasJt(s) == \E i \in 1..(Len(s) - 1) : s[i] = "j" /\ s[i + 1] = "t"

\* lines 165-169 on the cleaned string s
Scaled(s) == Suffixed(s, HasK(s), HasJt(s))

\* _parse_float on a string: the float, or None where float() raised ValueError
ParseFloatStr(str) == Scaled(Cleaned(str))

---------------------------------------------------------------------------
(* The response normalizer: AIProcessor.process_transaction after the loop. *)
(* A JSON value is [t, n, s, b]: its type, and its number, string or        *)
(* boolean; for a list, s is what str() makes of it.  A response text is a  *)
(* sequence of lines; a JSON document is taken to occupy one line.          *)

JMissing == [t |-> "missing", n |-> None, s |-> <<>>, b |-> FALSE]
JNull    == [t |-> "null", n |-> None, s |-> <<>>, b |-> FALSE]
JNum(x)  == [t |-> "num", n |-> x, s |-> <<>>, b |-> FALSE]
JStr(s)  == [t |-> "str", n |-> None, s |-> s, b |-> FALSE]
JBool(b) == [t |-> "bool", n |-> None, s |-> <<>>, b |-> b]
JList    == [t |-> "list", n |-> None, s |-> <<"[", "]">>, b |-> FALSE]

\* a text field whose key is absent from the object
MissingStr == "<missing>"

\* a variant of dict.get that also replaces a falsy value: get(key) or default
GetVal_OrDefault(v, default) ==
    IF \/ v.t \in {"missing", "null"}
       \/ (v.t = "num" /\ v.n[1] = 0)
       \/ (v.t = "bool" /\ ~v.b)
    THEN default ELSE v

\* dict.get(key, default) for a text field, and for a JSON value
GetStr(v, default) == IF v = MissingStr THEN default ELSE v
GetVal(v, default) == IF v.t = "missing" THEN default ELSE v

\* an int above the largest float (about 1.8e308), as json.loads returns for
\* a long enough integer literal
TooLarge == <<1, 0>>

\* float(n) for an int or float n: [exc, v]; an int too large raises
NumToFloat(n) ==
    IF n = TooLarge THEN [exc |-> "OverflowError", v |-> None]
    ELSE [exc |-> "", v |-> n]

\* _parse_float(data.get(key)): [exc, v], v the float or None, exc the
\* exception that left it ("" if none); only the string branch is in the try
ParseFloat(v) ==
    CASE v.t \in {"missing", "null"} -> [exc |-> "", v |-> None]
      [] v.t = "num"  -> NumToFloat(v.n)
      [] v.t = "bool" -> [exc |-> "", v |-> IF v.b THEN R(1) ELSE R(0)]
      [] OTHER        -> [exc |-> "", v |-> ParseFloatStr(v.s)]

\* the float f, or the ValueError float() raised: [exc, v]
OrValueError(f) ==
    IF f.ok THEN [exc |-> "", v |-> f.v] ELSE [exc |-> "ValueError", v |-> None]

\* float(value): [exc, v], exc the exception raised, "" if none
ToFloat(v) ==
    CASE v.t = "num"  -> NumToFloat(v.n)
      [] v.t = "bool" -> [exc |-> "", v |-> IF v.b THEN R(1) ELSE R(0)]
      [] v.t = "str"  -> OrValueError(StrToFloat(v.s))
      [] OTHER        -> [exc |-> "TypeError", v |-> None]

\* x or 0.0
OrZero(x) == IF Truthy(x) THEN x ELSE R(0)

TransactionRecord(amount, category, subcategory, account, note, transaction_type, is_flagged, flag_reason, confidence, investment_symbol, shares, price_per_share, destination_account, currency, source_account) ==
    [amount |-> amount, category |-> category, subcategory |-> subcategory,
     account |-> account, note |-> note, transaction_type |-> transaction_type,
     is_flagged |-> is_flagged, flag_reason |-> flag_reason,
     confidence |-> confidence, investment_symbol |-> investment_symbol,
     shares |-> shares, price_per_share |-> price_per_share,
     destination_account |-> destination_account, currency |-> currency,
     source_account |-> source_account]

\* the record of the except branch
FallbackRecord(exc) ==
    TransactionRecord(R(0), "Miscellaneous", "Other", "Wallet",
                      "Failed to parse extraction", "Expense", TRUE,
                      "AI response parsing error: " \o exc, R(0),
                      NoneStr, None, None, NoneStr, "IDR", NoneStr)

\* a JSON document: its top-level type and, for an object, its members
Doc(top, amount, shares, price_per_share, confidence, is_flagged, transaction_type, flag_reason, currency) ==
    [top |-> top, amount |-> amount, shares |-> shares,
     price_per_share |-> price_per_share, confidence |-> confidence,
     is_flagged |-> is_flagged, transaction_type |-> transaction_type,
     flag_reason |-> flag_reason, currency |-> currency,
     category |-> "Food", subcategory |-> MissingStr, account |-> "BCA",
     note |-> MissingStr, investment_symbol |-> NoneStr,
     destination_account |-> MissingStr, source_account |-> NoneStr]

\* the JSON object of a record: a float is a number, None is null, a text
\* field is its string (null for None), the flag is a boolean
JFloat(x) == IF x = None THEN JNull ELSE JNum(x)

ToJson(rec) ==
    [top |-> "obj", amount |-> JFloat(rec.amount), shares |-> JFloat(rec.shares),
     price_per_share |-> JFloat(rec.price_per_share),
     confidence |-> JFloat(rec.confidence),
     is_flagged |-> JBool(rec.is_flagged),
     transaction_type |-> rec.transaction_type,
     flag_reason |-> rec.flag_reason, currency |-> rec.currency,
     category |-> rec.category, subcategory |-> rec.subcategory,
     account |-> rec.account, note |-> rec.note,
     investment_symbol |-> rec.investment_symbol,
     destination_account |-> rec.destination_account,
     source_account |-> rec.source_account]

BlankDoc ==
    Doc("null", JMissing, JMissing, JMissing, JMissing, JMissing,
        MissingStr, MissingStr, MissingStr)

FenceLine  == [kind |-> "fence", doc |-> BlankDoc]
JunkLine   == [kind |-> "junk", doc |-> BlankDoc]
DocLine(d) == [kind |-> "doc", doc |-> d]

\* a response: text_is_none when response.text is None, else its lines
ResponseText(lines)  == [text_is_none |-> FALSE, lines |-> lines]
ResponseWithoutText  == [text_is_none |-> TRUE, lines |-> <<>>]

\* lines 271-281: the lines left once an enclosing fence is removed
Unfenced(lines) ==
    IF Len(lines) > 0 /\ lines[1].kind = "fence"
    THEN LET rest == Tail(lines)
         IN  IF rest = <<>> THEN [exc |-> "IndexError", lines |-> <<>>]
             ELSE IF rest[Len(rest)].kind = "fence"
             THEN [exc |-> "", lines |-> SubSeq(rest, 1, Len(rest) - 1)]
             ELSE [exc |-> "", lines |-> rest]
    ELSE [exc |-> "", lines |-> lines]

\* json.loads of the joined lines
JsonLoads(lines) ==
    IF Len(lines) = 1 /\ lines[1].kind = "doc"
    THEN [exc |-> "", doc |-> lines[1].doc]
    ELSE [exc |-> "JSONDecodeError", doc |-> BlankDoc]

\* the try block left by the exception exc
Raised(exc) == [exc |-> exc, rec |-> FallbackRecord("")]

\* lines 289-305: the record, given the confidence and the coerced numbers
BuildFrom(data, conf, num) ==
    IF num["amount"].exc # "" THEN Raised(num["amount"].exc)
    ELSE IF num["shares"].exc # "" THEN Raised(num["shares"].exc)
    ELSE IF num["price_per_share"].exc # "" THEN Raised(num["price_per_share"].exc)
    ELSE IF conf.exc # "" THEN Raised(conf.exc)
    ELSE [exc |-> "",
          rec |-> TransactionRecord(
              OrZero(num["amount"].v),
              GetStr(data.category, "Miscellaneous"),
              GetStr(data.subcategory, "Other"),
              GetStr(data.account, "Wallet"),
              GetStr(data.note, ""),
              GetStr(data.transaction_type, "Expense"),
              GetVal(data.is_flagged, JBool(FALSE)).b,
              GetStr(data.flag_reason, NoneStr),
              conf.v,
              GetStr(data.investment_symbol, NoneStr),
              num["shares"].v,
              num["price_per_share"].v,
              GetStr(data.destination_account, NoneStr),
              GetStr(data.currency, "IDR"),
              GetStr(data.source_account, NoneStr))]

\* lines 285-305: the record built from the parsed document
BuildRecord(data) ==
    IF data.top # "obj" THEN Raised("AttributeError")
    ELSE BuildFrom(data, ToFloat(GetVal(data.confidence, JNum(Q(1, 2)))),
                   [k \in {"amount", "shares", "price_per_share"} |->
                       ParseFloat(data[k])])

\* lines 283-305, given what json.loads made of the text
BuildLoaded(j) == IF j.exc # "" THEN Raised(j.exc) ELSE BuildRecord(j.doc)

\* lines 283-305, given the lines left of the text
LoadAndBuild(u) ==
    IF u.exc # "" THEN Raised(u.exc) ELSE BuildLoaded(JsonLoads(u.lines))

\* the try block, lines 268-305: [exc, rec]
TryNormalize(resp) ==
    IF resp.text_is_none THEN Raised("AttributeError")
    ELSE LoadAndBuild(Unfenced(resp.lines))

\* a variant whose except clause catches json.JSONDecodeError only
Caught_DecodeOnly(exc) == exc = "JSONDecodeError"

\* except (json.JSONDecodeError, Exception): every exception the try raises
Caught(exc) == exc \in {"JSONDecodeError", "AttributeError", "IndexError", "ValueError", "TypeError", "OverflowError"}

\* the except clause, lines 307-319, on what the try block ended with
ExceptClause(t) ==
    IF t.exc # "" /\ Caught(t.exc)
    THEN [exc |-> "", rec |-> FallbackRecord(t.exc)]
    ELSE t

\* lines 267-319: [exc, rec], exc the exception that leaves the normalizer
Normalize(resp) == ExceptClause(TryNormalize(resp))

---------------------------------------------------------------------------
(* Inputs and action of the response normalizer *)

AmountValues ==
    {JMissing, JNull, JNum(R(5)), JNum(R(0)), JNum(TooLarge), JBool(TRUE), JList,
     JStr(<<"2", "0", "k">>), JStr(<<"1", ".", "5", "j", "t">>),
     JStr(<<"$", "1", "0", "0">>), JStr(<<"a", "b", "c">>)}

\* shares and price_per_share, together
TradeValues ==
    {<<JMissing, JNull>>, <<JNum(R(2)), JNum(R(3))>>,
     <<JStr(<<"l", "o", "t">>), JNum(R(3))>>,
     <<JNum(R(2)), JStr(<<"R", "p", " ", "2", "?">>)>>}

ConfidenceValues ==
    {JMissing, JNull, JNum(Q(9, 10)), JStr(<<"0", ".", "9">>),
     JStr(<<"h", "i", "g", "h">>)}

FlaggedValues == {JMissing, JBool(TRUE)}

KindValues == {MissingStr, "Income"}

\* the JSON objects a backend can answer with
ObjectDocs ==
    {Doc("obj", a, sp[1], sp[2], c, f, k, NoneStr, MissingStr) :
        a \in AmountValues, sp \in TradeValues,
        c \in ConfidenceValues, f \in FlaggedValues, k \in KindValues}

\* the objects that are also tried inside a fence
FencedDocs == {d \in ObjectDocs : d.amount = JNum(R(5)) /\ d.shares = JMissing}

\* JSON documents that are not objects
OtherDocs ==
    {Doc(top, JMissing, JMissing, JMissing, JMissing, JMissing,
         MissingStr, MissingStr, MissingStr) : top \in {"list", "null", "num", "str"}}

\* the ways a document is laid out in the text, other than on its own
Layouts(d) ==
    {<<FenceLine, DocLine(d)>>, <<FenceLine, DocLine(d), FenceLine>>,
     <<DocLine(d), FenceLine>>, <<DocLine(d), JunkLine>>}

\* texts that hold no document
BrokenTexts ==
    {<<>>, <<FenceLine>>, <<FenceLine, FenceLine>>, <<JunkLine>>,
     <<FenceLine, JunkLine, FenceLine>>}

NormalizerInputs ==
    {ResponseWithoutText}
    \cup {ResponseText(l) : l \in BrokenTexts}
    \cup {ResponseText(<<DocLine(d)>>) : d \in ObjectDocs \cup OtherDocs}
    \cup {ResponseText(l) : l \in UNION {Layouts(d) : d \in FencedDocs}}

\* the normalizer runs on the response the loop ended with
NormalizeResponse ==
    /\ npc = "idle"
    /\ \E resp \in NormalizerInputs :
        LET out == Normalize(resp)
        IN  /\ nresp' = resp
            /\ nrec' = out.rec
            /\ nexc' = out.exc
    /\ npc' = "done"
    /\ UNCHANGED <<nfed, notNormalizer>>

\* the normalizer runs on the JSON text of the record it returned
NormalizeOwnRecord ==
    /\ npc = "done"
    /\ nexc = ""
    /\ LET resp == ResponseText(<<DocLine(ToJson(nrec))>>)
           out  == Normalize(resp)
       IN  /\ nresp' = resp
           /\ nrec' = out.rec
           /\ nexc' = out.exc
    /\ nfed' = nrec
    /\ npc' = "fed"
    /\ UNCHANGED notNormalizer

---------------------------------------------------------------------------
(* Inputs and action of the amount normalizer on its own *)

MaxStrLen == 3

\* the characters _parse_float treats specially, a digit, and what is left
\* of a word
ParseChars == {"2", ".", ",", "$", "R", "p", "k", "j", "t", " ", "-", "x"}

\* every string over ParseChars of at most MaxStrLen characters
ShortStrings == UNION {[1..n -> ParseChars] : n \in 0..MaxStrLen}

\* longer amounts as users write them
WrittenAmounts ==
    {<<"2", "0", "k">>, <<"1", ".", "5", "j", "t">>, <<"$", "1", "0", "0">>,
     <<"R", "p", " ", "5", "0", ",", "0", "0", "0">>, <<"r", "P", "2", "0", "K">>,
     <<"2", ".", "5", "J", "T">>, <<"1", "5", "k", "j", "t">>,
     <<"1", "j", "t", "5", "0", "0", "k">>, <<"a", "b", "c">>}

ParseInputs ==
    {JNull, JNum(R(5)), JNum(R(0)), JNum(Q(-5, 2)), JNum(TooLarge),
     JBool(TRUE), JBool(FALSE), JList}
    \cup {JStr(s) : s \in ShortStrings \cup WrittenAmounts}

\* _parse_float is called on a value
ParseValue ==
    /\ fpc = "idle"
    /\ \E v \in ParseInputs :
        /\ fvalue' = v
        /\ fresult' = ParseFloat(v)
    /\ fpc' = "done"
    /\ UNCHANGED notParse

---------------------------------------------------------------------------
(* The exchange rate service: logic/exchange_rate.py.  Time is counted in   *)
(* half hours.  Calls of get_usd_to_idr_rate run as coroutines of one event *)
(* loop: a call is suspended while a provider is asked and while the HTTP   *)
(* client is closed, and another call can run meanwhile.                    *)

CACHE_DURATION == 2
DEFAULT_FALLBACK_RATE == R(16000)
NoTime == -1

Callers == {1, 2}

\* an answer of a provider: the request raised (timeout, connection error),
\* or came back with a status, data["success"] and data["rates"]["IDR"]
Answer(raises, status, success, rate) ==
    [raises |-> raises, status |-> status, success |-> success, rate |-> rate]

NoAnswer == Answer(FALSE, 0, FALSE, JMissing)

\* bool(value) of a JSON value
TruthyJ(v) ==
    CASE v.t = "num"  -> v.n[1] # 0
      [] v.t = "str"  -> v.s # <<>>
      [] v.t = "bool" -> v.b
      [] OTHER        -> FALSE

\* a variant of the first try that never returns a rate
PrimaryResult_NeverReturns(a) ==
    [exc |-> "", returned |-> FALSE, v |-> None]

\* return float(rate), or the exception float() raised: [exc, returned, v]
ReturnFloat(f) == [exc |-> f.exc, returned |-> f.exc = "", v |-> f.v]

\* the body of the first try of _fetch_exchange_rate: [exc, returned, v]
PrimaryResult(a) ==
    IF a.raises THEN [exc |-> "ConnectError", returned |-> FALSE, v |-> None]
    ELSE IF a.status = 200 /\ a.success /\ a.rate.t # "missing" /\ TruthyJ(a.rate)
    THEN ReturnFloat(ToFloat(a.rate))
    ELSE [exc |-> "", returned |-> FALSE, v |-> None]

\* the body of the second try: [exc, returned, v]
SecondaryResult(a) ==
    IF a.raises THEN [exc |-> "ConnectError", returned |-> FALSE, v |-> None]
    ELSE IF a.status = 200 /\ TruthyJ(a.rate)
    THEN ReturnFloat(ToFloat(a.rate))
    ELSE [exc |-> "", returned |-> FALSE, v |-> None]

\* a variant whose except clauses catch nothing
Catches_Nothing(exc) == FALSE

\* except Exception: every exception a request or a conversion raises
Catches(exc) == exc \in {"ConnectError", "ValueError", "TypeError"}

\* a variant that takes a cache of exactly the TTL's age for fresh
Fresh_Inclusive(t, ts) == t - ts <= CACHE_DURATION

\* datetime.now() - _cache_timestamp < CACHE_DURATION
Fresh(t, ts) == t - ts < CACHE_DURATION

\* one call of get_usd_to_idr_rate: where it is, what it saw when it began
\* (clock, cache, number of cache writes so far), what the providers
\* answered, and what it saw and returned when it ended
RateCall(pc, start, seen_rate, seen_ts, nstores, contacts) ==
    [pc |-> pc, start |-> start, seen_rate |-> seen_rate, seen_ts |-> seen_ts,
     nstores |-> nstores, contacts |-> contacts,
     primary |-> NoAnswer, secondary |-> NoAnswer, fetched |-> None,
     end |-> 0, end_rate |-> None, end_set |-> None, ret |-> None, exc |-> ""]

NoCall == RateCall("idle", 0, None, NoTime, 0, <<>>)

\* a variant that ignores the cache once the providers have failed
Degraded_FallbackOnly(cached, fallback) == fallback

\* lines 49-54: what is returned when no rate was fetched
Degraded(cached, fallback) == IF ~IsNone(cached) THEN cached ELSE fallback

\* a variant that stores the rate and leaves the timestamp as it was
NewTimestamp_Never(t, old) == old

\* a variant that keeps the timestamp of the first fetch
NewTimestamp_Keep(t, old) == IF old = NoTime THEN t ELSE old

\* line 43: _cache_timestamp = datetime.now()
NewTimestamp(t, old) == t

MaxRateCalls == 3
MaxTime == 2

PrimaryReplies ==
    {Answer(TRUE, 0, FALSE, JMissing),
     Answer(FALSE, 200, FALSE, JNum(R(3))),
     Answer(FALSE, 200, TRUE, JNum(R(3))),
     Answer(FALSE, 200, TRUE, JStr(<<"0", ".", "0">>)),
     Answer(FALSE, 200, TRUE, JNum(R(-1)))}

SecondaryReplies ==
    {Answer(TRUE, 0, FALSE, JMissing),
     Answer(FALSE, 200, FALSE, JNull),
     Answer(FALSE, 200, FALSE, JNum(R(4)))}

FallbackRates == {R(5)}

\* lines 31-36: the call begins; a fresh cache answers it at once
StartCall ==
    \E p \in Callers :
        /\ rcall[p].pc \in {"idle", "returned"}
        /\ nrate < MaxRateCalls
        /\ nrate' = nrate + 1
        /\ IF /\ ~IsNone(cached_rate)
              /\ cache_timestamp # NoTime
              /\ Fresh(clock, cache_timestamp)
           THEN rcall' = [rcall EXCEPT ![p] =
                    [RateCall("returned", clock, cached_rate, cache_timestamp,
                              Len(stores), <<>>)
                     EXCEPT !.end = clock, !.end_rate = cached_rate,
                            !.end_set = fallback_set, !.ret = cached_rate]]
           ELSE rcall' = [rcall EXCEPT ![p] =
                    RateCall("primary", clock, cached_rate, cache_timestamp,
                             Len(stores), <<"primary">>)]
        /\ UNCHANGED <<cached_rate, cache_timestamp, FALLBACK_RATE, fallback_set, clock, stores, notRate>>

\* lines 61-76: the first provider answers
PrimaryReply ==
    \E p \in Callers : \E a \in PrimaryReplies :
        LET res == PrimaryResult(a)
            c   == [rcall[p] EXCEPT !.primary = a]
        IN  /\ rcall[p].pc = "primary"
            /\ rcall' = [rcall EXCEPT ![p] =
                   IF res.exc # "" /\ ~Catches(res.exc)
                   THEN [c EXCEPT !.pc = "raised", !.exc = res.exc]
                   ELSE IF res.exc = "" /\ res.returned
                   THEN [c EXCEPT !.pc = "fetched", !.fetched = res.v]
                   ELSE [c EXCEPT !.pc = "secondary",
                                  !.contacts = Append(@, "secondary")]]
            /\ UNCHANGED <<cached_rate, cache_timestamp, FALLBACK_RATE, fallback_set, clock, stores, nrate, notRate>>

\* lines 78-95: the second provider answers
SecondaryReply ==
    \E p \in Callers : \E a \in SecondaryReplies :
        LET res == SecondaryResult(a)
            c   == [rcall[p] EXCEPT !.secondary = a]
        IN  /\ rcall[p].pc = "secondary"
            /\ rcall' = [rcall EXCEPT ![p] =
                   IF res.exc # "" /\ ~Catches(res.exc)
                   THEN [c EXCEPT !.pc = "raised", !.exc = res.exc]
                   ELSE IF res.exc = "" /\ res.returned
                   THEN [c EXCEPT !.pc = "fetched", !.fetched = res.v]
                   ELSE [c EXCEPT !.pc = "fetched", !.fetched = None]]
            /\ UNCHANGED <<cached_rate, cache_timestamp, FALLBACK_RATE, fallback_set, clock, stores, nrate, notRate>>

\* a variant that renews the timestamp of the cached rate when the fetch
\* gave nothing
Finish_RenewsOnFailure ==
    \E p \in Callers :
        LET c == [rcall[p] EXCEPT !.pc = "returned", !.end = clock,
                                  !.end_rate = cached_rate,
                                  !.end_set = fallback_set]
        IN  /\ rcall[p].pc = "fetched"
            /\ IF Truthy(rcall[p].fetched)
               THEN /\ cached_rate' = rcall[p].fetched
                    /\ cache_timestamp' = NewTimestamp(clock, cache_timestamp)
                    /\ stores' = Append(stores, [rate |-> rcall[p].fetched,
                                                 time |-> clock])
                    /\ rcall' = [rcall EXCEPT ![p] = [c EXCEPT !.ret = rcall[p].fetched]]
               ELSE /\ rcall' = [rcall EXCEPT ![p] = [c EXCEPT !.ret =
                           Degraded(cached_rate, FALLBACK_RATE)]]
                    /\ cache_timestamp' = IF IsNone(cached_rate) THEN cache_timestamp
                                          ELSE clock
                    /\ UNCHANGED <<cached_rate, stores>>
            /\ UNCHANGED <<FALLBACK_RATE, fallback_set, clock, nrate, notRate>>

\* lines 40-54: _fetch_exchange_rate has returned; store and return
Finish ==
    \E p \in Callers :
        LET c == [rcall[p] EXCEPT !.pc = "returned", !.end = clock,
                                  !.end_rate = cached_rate,
                                  !.end_set = fallback_set]
        IN  /\ rcall[p].pc = "fetched"
            /\ IF Truthy(rcall[p].fetched)
               THEN /\ cached_rate' = rcall[p].fetched
                    /\ cache_timestamp' = NewTimestamp(clock, cache_timestamp)
                    /\ stores' = Append(stores, [rate |-> rcall[p].fetched,
                                                 time |-> clock])
                    /\ rcall' = [rcall EXCEPT ![p] = [c EXCEPT !.ret = rcall[p].fetched]]
               ELSE /\ rcall' = [rcall EXCEPT ![p] = [c EXCEPT !.ret =
                           Degraded(cached_rate, FALLBACK_RATE)]]
                    /\ UNCHANGED <<cached_rate, cache_timestamp, stores>>
            /\ UNCHANGED <<FALLBACK_RATE, fallback_set, clock, nrate, notRate>>

\* set_fallback_rate(rate)
SetFallbackRate ==
    \E r \in FallbackRates :
        /\ FALLBACK_RATE # r
        /\ FALLBACK_RATE' = r
        /\ fallback_set' = r
        /\ UNCHANGED <<cached_rate, cache_timestamp, clock, rcall, stores, nrate, notRate>>

\* half an hour passes
Tick ==
    /\ clock < MaxTime
    /\ clock' = clock + 1
    /\ UNCHANGED <<cached_rate, cache_timestamp, FALLBACK_RATE, fallback_set, rcall, stores, nrate, notRate>>

---------------------------------------------------------------------------
(* The webhook: main.py telegram_webhook around process_transaction.  Each  *)
(* update is served by a coroutine of the one event loop uvicorn.run starts: *)
(* a coroutine is suspended only at an await (the inference call, the rate   *)
(* fetch, the Telegram send); the store calls are blocking calls, made one   *)
(* after the other while the coroutine holds the loop.                       *)

Tasks == {1, 2}

\* the interpreted record with its flag_reason
WithReason(td, flag_reason) ==
    [k \in DOMAIN td \cup {"flag_reason"} |->
        IF k = "flag_reason" THEN flag_reason ELSE td[k]]

\* the dict process_transaction returns, lines 399-412
Summary(td) ==
    [amount |-> td.amount, category |-> td.category,
     subcategory |-> td.subcategory, account |-> td.account,
     destination_account |-> td.destination_account, note |-> td.note,
     transaction_type |-> td.transaction_type, is_flagged |-> td.is_flagged,
     investment_symbol |-> td.investment_symbol, shares |-> td.shares,
     price_per_share |-> td.price_per_share, currency |-> td.currency]

\* dict.get(key), dict.get(key, default)
DictGet(d, key, default) == IF key \in DOMAIN d THEN d[key] ELSE default

\* what send_confirmation is called with and the reason line it shows
Confirmation(transaction) ==
    LET is_flagged  == transaction["is_flagged"]
        flag_reason == DictGet(transaction, "flag_reason", NoneStr)
    IN  [kind        |-> "confirmation",
         amount      |-> transaction["amount"],
         is_flagged  |-> is_flagged,
         flag_reason |-> flag_reason,
         shown       |-> IF ~is_flagged THEN NoneStr
                         ELSE IF TruthyStr(flag_reason) THEN flag_reason
                         ELSE "Unspecified check required"]

\* what send_error is called with: one fixed text
ErrorNotice ==
    [kind |-> "error", amount |-> None, is_flagged |-> FALSE,
     flag_reason |-> NoneStr,
     shown |-> "Could not process your transaction. Please try again."]

NothingSent ==
    [kind |-> "none", amount |-> None, is_flagged |-> FALSE,
     flag_reason |-> NoneStr, shown |-> NoneStr]

\* the last_error the inference loop raises once every backend failed
InferenceError == "ClientError"

\* the JSON the webhook answers with; message is str(e)
Response(status, message) == [status |-> status, message |-> message]

\* str(e) of the exception a store call or the arithmetic raised
StrOf(exc) ==
    IF exc = "APIError" THEN "APIError: the service is currently unavailable"
    ELSE IF exc = InferenceError THEN "429 RESOURCE_EXHAUSTED"
    ELSE "unsupported operand type(s): 'NoneType'"

\* a variant of the event loop that hands over between any two steps
MayRun_Preemptive(holder, p) == TRUE

\* the event loop resumes a coroutine only when no other coroutine holds it
MayRun(holder, p) == holder \in {0, p}

\* a variant of the except clause that takes the request's entries back
LedgerAfterError_RolledBack(led, wrote) ==
    SelectSeq(led, LAMBDA e : \A j \in 1..Len(wrote) : wrote[j] # e)

\* the except clause of telegram_webhook leaves the ledger as it is
LedgerAfterError(led, wrote) == led

\* one coroutine serving an update
Task(pc, td, exchange_rate, date) ==
    [pc |-> pc, td |-> td, exchange_rate |-> exchange_rate, date |-> date,
     planned |-> FALSE, ops |-> <<>>, k |-> 0,
     reading |-> FALSE, seen |-> <<>>,
     attempted |-> <<>>, wrote |-> <<>>, exc |-> "",
     response |-> Response("", ""), sent |-> NothingSent]

NoTask == Task("idle", WithReason(NoRequest.td, NoneStr), None, "")

\* rows i of the Investments tab written back from what was computed on the
\* rows read: update() of the found row, or append_row of the new one
WriteBack(current, seen, computed) ==
    IF Len(computed) > Len(seen)
    THEN Append(current, computed[Len(computed)])
    ELSE LET changed == {i \in 1..Len(seen) : computed[i] # seen[i]}
         IN  [i \in 1..Len(current) |->
                 IF i \in changed THEN computed[i] ELSE current[i]]

\* the task after its k-th store call went through; after the last one
\* process_transaction returns and the webhook awaits send_confirmation
Advance(t) ==
    IF t.k + 1 = Len(t.ops)
    THEN [t EXCEPT !.k = @ + 1, !.reading = FALSE, !.pc = "confirm"]
    ELSE [t EXCEPT !.k = @ + 1, !.reading = FALSE]

\* the task after an exception left process_transaction: the webhook awaits
\* send_error
Fail(t, exc) == [t EXCEPT !.pc = "error", !.exc = exc, !.reading = FALSE]

\* who holds the loop once task t has taken its step
Holder(t, p) == IF t.pc = "run" THEN p ELSE 0

\* the task as it enters the ledger section, lines 239-397
Enter(t, pf) ==
    IF t.td.transaction_type = "Trade_Sell"
    THEN [t EXCEPT !.pc = "run"]
    ELSE [t EXCEPT !.pc = "run", !.planned = TRUE,
                   !.ops = Plan(t.td, "msg", t.exchange_rate, pf, t.date).ops]

MaxUpdates == 3

WebhookRates == {R(2)}

\* records the interpretation can hand over, with their flag_reason
WebhookInputs ==
    {WithReason(Trade("Trade_Buy", "ARCI", "IDR", R(4), R(2), R(2), FALSE).td, NoneStr),
     WithReason(Trade("Trade_Sell", "ARCI", "IDR", R(5), R(1), R(5), TRUE).td,
                "Price far from average"),
     WithReason(TransactionData(R(5), "Transfer", "Internal", "BCA", "move",
                                "Transfer", FALSE, NoneStr, None, None, "Jago",
                                "IDR"), NoneStr),
     WithReason(TransactionData(R(1), "Food", "Coffee", "BCA", "latte", "Expense",
                                TRUE, NoneStr, None, None, NoneStr, "USD"),
                "Amount unclear")}

\* what the store's API answers a call with: it goes through or raises
StoreAnswers == {"ok", "APIError"}

\* an update arrives, td being the record its interpretation will give: the
\* webhook runs up to await ai.process_transaction
Arrive(p) ==
    /\ nupd < MaxUpdates
    /\ MayRun(running, p)
    /\ tasks[p].pc \in {"idle", "done"}
    /\ \E td \in WebhookInputs :
           tasks' = [tasks EXCEPT ![p] = [NoTask EXCEPT !.pc = "ai", !.td = td]]
    /\ nupd' = nupd + 1
    /\ UNCHANGED <<running, ledger, portfolio, today, last, nreq, updates, notLedger>>

\* task p has taken its step and is now u
Becomes(p, u) ==
    /\ tasks' = [tasks EXCEPT ![p] = u]
    /\ running' = Holder(u, p)

\* the inference returns the record: lines 229-236, then either the rate is
\* awaited or the ledger section begins
Dated(t, pf) ==
    IF t.td.currency = "USD" THEN [t EXCEPT !.pc = "rate"] ELSE Enter(t, pf)

Interpreted(p) ==
    /\ MayRun(running, p)
    /\ tasks[p].pc = "ai"
    /\ Becomes(p, Dated([tasks[p] EXCEPT !.date = today, !.exchange_rate = R(1)],
                        portfolio))
    /\ UNCHANGED <<nupd, ledger, portfolio, today, last, nreq, updates, notLedger>>

\* a variant in which the orchestrator runs the inference again
InferenceFails_Retried(p) ==
    /\ MayRun(running, p)
    /\ tasks[p].pc = "ai"
    /\ tasks[p].exc = ""
    /\ Becomes(p, [tasks[p] EXCEPT !.exc = InferenceError])
    /\ UNCHANGED <<nupd, ledger, portfolio, today, last, nreq, updates, notLedger>>

\* the inference raises, every backend having failed: the exception leaves
\* process_transaction at line 220 and the webhook awaits send_error
InferenceFails(p) ==
    /\ MayRun(running, p)
    /\ tasks[p].pc = "ai"
    /\ Becomes(p, Fail(tasks[p], InferenceError))
    /\ UNCHANGED <<nupd, ledger, portfolio, today, last, nreq, updates, notLedger>>

\* get_usd_to_idr_rate returns: line 236, then the ledger section begins
RateAnswered(p) ==
    /\ MayRun(running, p)
    /\ tasks[p].pc = "rate"
    /\ \E rate \in WebhookRates :
           Becomes(p, Enter([tasks[p] EXCEPT !.exchange_rate = rate], portfolio))
    /\ UNCHANGED <<nupd, ledger, portfolio, today, last, nreq, updates, notLedger>>

\* lines 283-316 on the rows get_investments returned
Split(t, plan) ==
    IF plan.raises THEN Fail(t, "TypeError")
    ELSE [t EXCEPT !.planned = TRUE, !.ops = plan.ops]

\* Trade_Sell, line 282: get_investments, then the split is computed
ReadPosition(p) ==
    /\ MayRun(running, p)
    /\ tasks[p].pc = "run"
    /\ ~tasks[p].planned
    /\ \E answer \in StoreAnswers :
           Becomes(p, IF answer # "ok" THEN Fail(tasks[p], answer)
                      ELSE Split(tasks[p],
                                 Plan(tasks[p].td, "msg", tasks[p].exchange_rate,
                                      portfolio, tasks[p].date)))
    /\ UNCHANGED <<nupd, ledger, portfolio, today, last, nreq, updates, notLedger>>

\* the task as it makes its next store call
Attempting(t) == [t EXCEPT !.attempted = Append(@, t.k + 1)]

\* the entry the task's next store call appends
NextEntry(t) == t.ops[t.k + 1].entry

\* the next store call is an append_transaction
AppendEntry(p) ==
    /\ MayRun(running, p)
    /\ tasks[p].pc = "run"
    /\ tasks[p].planned
    /\ tasks[p].ops[tasks[p].k + 1].op = "append"
    /\ \E answer \in StoreAnswers :
           IF answer = "ok"
           THEN /\ Becomes(p, Advance([Attempting(tasks[p]) EXCEPT
                                          !.wrote = Append(@, NextEntry(tasks[p]))]))
                /\ ledger' = AppendTransaction(ledger, NextEntry(tasks[p]))
           ELSE /\ Becomes(p, Fail(Attempting(tasks[p]), answer))
                /\ ledger' = LedgerAfterError(ledger, tasks[p].wrote)
    /\ UNCHANGED <<nupd, portfolio, today, last, nreq, updates, notLedger>>

\* update_investment, lines 188-190: the rows of the Investments tab are read
ReadRows(p) ==
    /\ MayRun(running, p)
    /\ tasks[p].pc = "run"
    /\ tasks[p].planned
    /\ tasks[p].ops[tasks[p].k + 1].op = "update"
    /\ ~tasks[p].reading
    /\ \E answer \in StoreAnswers :
           IF answer = "ok"
           THEN /\ Becomes(p, [Attempting(tasks[p]) EXCEPT !.reading = TRUE,
                                                           !.seen = portfolio])
                /\ ledger' = ledger
           ELSE /\ Becomes(p, Fail(Attempting(tasks[p]), answer))
                /\ ledger' = LedgerAfterError(ledger, tasks[p].wrote)
    /\ UNCHANGED <<nupd, portfolio, today, last, nreq, updates, notLedger>>

\* the row computed from the rows read is written, or the call raises
Written(p, t, computed, answer) ==
    /\ computed.pf = t.seen => answer = "ok"
    /\ IF computed.raised \/ answer # "ok"
       THEN /\ Becomes(p, Fail(t, IF computed.raised THEN "TypeError" ELSE answer))
            /\ portfolio' = portfolio
            /\ ledger' = LedgerAfterError(ledger, t.wrote)
       ELSE /\ Becomes(p, Advance(t))
            /\ portfolio' = WriteBack(portfolio, t.seen, computed.pf)
            /\ ledger' = ledger

\* update_investment, lines 192-256: the row is computed from the rows read
\* and written with update() or append_row()
WriteRow(p) ==
    /\ MayRun(running, p)
    /\ tasks[p].pc = "run"
    /\ tasks[p].reading
    /\ \E answer \in StoreAnswers :
           Written(p, tasks[p],
                   UpdateInvestment(tasks[p].seen,
                                    tasks[p].ops[tasks[p].k + 1].upd, today),
                   answer)
    /\ UNCHANGED <<nupd, today, last, nreq, updates, notLedger>>

\* lines 159-175: the confirmation is sent and the webhook answers success
SendConfirmation(p) ==
    /\ MayRun(running, p)
    /\ tasks[p].pc = "confirm"
    /\ tasks' = [tasks EXCEPT ![p] =
                    [tasks[p] EXCEPT !.pc = "done",
                                     !.sent = Confirmation(Summary(tasks[p].td)),
                                     !.response = Response("success", "")]]
    /\ UNCHANGED <<running, nupd, ledger, portfolio, today, last, nreq, updates, notLedger>>

\* lines 177-187: the error notice is sent and the webhook answers error
SendError(p) ==
    /\ MayRun(running, p)
    /\ tasks[p].pc = "error"
    /\ tasks' = [tasks EXCEPT ![p] =
                    [tasks[p] EXCEPT !.pc = "done",
                                     !.sent = ErrorNotice,
                                     !.response = Response("error", StrOf(tasks[p].exc))]]
    /\ UNCHANGED <<running, nupd, ledger, portfolio, today, last, nreq, updates, notLedger>>

---------------------------------------------------------------------------
(* Specifications *)

InitLedger ==
    /\ ledger = <<>>
    /\ portfolio = <<>>
    /\ today = Dates[1]
    /\ last = NoRequest
    /\ nreq = 0
    /\ updates = <<>>

InitInvoker ==
    /\ ipc = "idle"
    /\ mi = 1
    /\ attempt = 0
    /\ retry_delay = initial_delay
    /\ response = NoneStr
    /\ last_error = NoErr
    /\ raised = NoErr
    /\ calls = <<>>
    /\ sleeps = <<>>

InitNormalizer ==
    /\ npc = "idle"
    /\ nresp = ResponseWithoutText
    /\ nrec = FallbackRecord("")
    /\ nexc = ""
    /\ nfed = FallbackRecord("")

InitRate ==
    /\ cached_rate = None
    /\ cache_timestamp = NoTime
    /\ FALLBACK_RATE = DEFAULT_FALLBACK_RATE
    /\ fallback_set = None
    /\ clock = 0
    /\ rcall = [p \in Callers |-> NoCall]
    /\ stores = <<>>
    /\ nrate = 0

InitWebhook ==
    /\ tasks = [p \in Tasks |-> NoTask]
    /\ running = 0
    /\ nupd = 0

InitParse ==
    /\ fpc = "idle"
    /\ fvalue = JNull
    /\ fresult = [exc |-> "", v |-> None]

Init ==
    InitLedger /\ InitInvoker /\ InitNormalizer /\ InitRate /\ InitWebhook /\ InitParse

Next ==
    \/ HandleRequest
    \/ NextDay

Spec == Init /\ [][Next]_vars

NextInvoker ==
    \/ InvokeStart
    \/ CallSucceeds
    \/ CallFails
    \/ Sleep

SpecInvoker == Init /\ [][NextInvoker]_vars

\* every generate_content call returns or raises, and every asyncio.sleep
\* returns
FairInvoker ==
    /\ WF_vars(CallSucceeds \/ CallFails)
    /\ WF_vars(Sleep)

SpecInvokerFair == Init /\ [][NextInvoker]_vars /\ FairInvoker

NextTrade == HandleTrade

SpecTrade == Init /\ [][NextTrade]_vars

NextWebhook ==
    \E p \in Tasks :
        \/ Arrive(p)
        \/ Interpreted(p)
        \/ InferenceFails(p)
        \/ RateAnswered(p)
        \/ ReadPosition(p)
        \/ AppendEntry(p)
        \/ ReadRows(p)
        \/ WriteRow(p)
        \/ SendConfirmation(p)
        \/ SendError(p)

SpecWebhook == Init /\ [][NextWebhook]_vars

NextNormalizer == NormalizeResponse \/ NormalizeOwnRecord

SpecNormalizer == Init /\ [][NextNormalizer]_vars

NextParse == ParseValue

SpecParse == Init /\ [][NextParse]_vars

NextRate ==
    \/ StartCall
    \/ PrimaryReply
    \/ SecondaryReply
    \/ Finish
    \/ SetFallbackRate
    \/ Tick

SpecRate == Init /\ [][NextRate]_vars

---------------------------------------------------------------------------
(* Properties of the ledger update engine (specification Spec) *)

\* the entries the last request appended
LastEntries == SubSeq(ledger, last.nBefore + 1, Len(ledger))

LastKind == last.td.transaction_type
LastSymbol == last.td.investment_symbol

\* the row of the last request's symbol before and after it, 0 if none
RowBefore == FindSymbol(last.before, LastSymbol)
RowAfter  == FindSymbol(portfolio, LastSymbol)

\* a trade that names both shares and price
ExplicitTrade == ~IsNone(last.td.shares) /\ ~IsNone(last.td.price_per_share)

\* C1: a Trade_Sell that names shares and price, on a symbol that has a
\* position, ends in success having appended exactly two entries: first an
\* 'Asset' entry of base_cost = shares sold x the position's avg_cost, then an
\* 'Income' / 'Capital Gains' entry of capital_gain = amount - base_cost; and
\* the position's shares are reduced by the shares sold and its realized_pl
\* is increased by capital_gain.
C1_SellSplitsAtAvgCost ==
    (LastKind = "Trade_Sell" /\ ExplicitTrade /\ RowBefore > 0) =>
        LET old          == last.before[RowBefore]
            base_cost    == RMul(last.td.shares, old.avg)
            capital_gain == RSub(last.td.amount, base_cost)
        IN  /\ last.outcome = "success"
            /\ Len(LastEntries) = 2
            /\ LastEntries[1].type = "Asset"
            /\ LastEntries[1].amount = base_cost
            /\ LastEntries[2].type = "Income"
            /\ LastEntries[2].category = "Income"
            /\ LastEntries[2].subcategory = "Capital Gains"
            /\ LastEntries[2].amount = capital_gain
            /\ RowAfter = RowBefore
            /\ portfolio[RowAfter].shares = RSub(old.shares, last.td.shares)
            /\ portfolio[RowAfter].realized_pl = RAdd(old.realized_pl, capital_gain)

\* C1 witness: a position with avg_cost 2, 1 share sold at 5: the entries are
\* 2 and 3
C1_Witness ==
    /\ LastKind = "Trade_Sell"
    /\ last.outcome = "success"
    /\ RowBefore > 0
    /\ last.before[RowBefore].avg = R(2)
    /\ last.td.shares = R(1)
    /\ last.td.price_per_share = R(5)
    /\ Len(LastEntries) = 2
    /\ LastEntries[1].amount = R(2)
    /\ LastEntries[2].amount = R(3)
    /\ portfolio[RowAfter].realized_pl = RAdd(last.before[RowBefore].realized_pl, R(3))

\* the update_investment calls that returned for a symbol
UpdatesOf(symbol) == SelectSeq(updates, LAMBDA u : u.symbol = symbol)

RECURSIVE SumShares(_, _)
SumShares(us, k) ==
    IF k = 0 THEN R(0) ELSE RAdd(SumShares(us, k - 1), us[k].shares_change)

RECURSIVE SumCost(_, _)
SumCost(us, k) ==
    IF k = 0 THEN R(0)
    ELSE RAdd(SumCost(us, k - 1), RMul(us[k].shares_change, us[k].price))

OnlyBuys(us) == \A k \in 1..Len(us) : RGt0(us[k].shares_change)

TradedSymbols == {r.td.investment_symbol : r \in BuyRequests \cup SellRequests}

\* C2: while a symbol has only been bought, starting from no position, its
\* position's shares are the sum of the bought shares and its avg_cost is the
\* shares-weighted mean of the buy prices; the first buy creates the position
\* with the derived shares and price, and each later buy sets
\* new_avg = (old_shares*old_avg + new_shares*new_price) / (old_shares + new_shares)
\* and shares = old_shares + new_shares.
C2_BuysKeepWeightedMean ==
    /\ \A s \in TradedSymbols :
        LET us == UpdatesOf(s)
            i  == FindSymbol(portfolio, s)
        IN  (Len(us) > 0 /\ OnlyBuys(us)) =>
                /\ i > 0
                /\ portfolio[i].shares = SumShares(us, Len(us))
                /\ portfolio[i].avg = RDiv(SumCost(us, Len(us)), SumShares(us, Len(us)))
    /\ (LastKind = "Trade_Buy" /\ last.outcome = "success"
            /\ OnlyBuys(UpdatesOf(LastSymbol))) =>
        LET shares == updates[Len(updates)].shares_change
            price  == updates[Len(updates)].price
        IN  /\ updates[Len(updates)].symbol = LastSymbol
            /\ RowAfter > 0
            /\ IF RowBefore = 0
               THEN /\ portfolio[RowAfter].shares = shares
                    /\ portfolio[RowAfter].avg = price
               ELSE LET old == last.before[RowBefore]
                    IN  /\ portfolio[RowAfter].shares = RAdd(old.shares, shares)
                        /\ portfolio[RowAfter].avg =
                                RDiv(RAdd(RMul(old.shares, old.avg), RMul(shares, price)),
                                     RAdd(old.shares, shares))

\* C2 witness: 2 shares at 2, then 2 shares at 3, then 2 shares at 2 give
\* 6 shares at 7/3
C2_Witness ==
    /\ LastKind = "Trade_Buy"
    /\ last.outcome = "success"
    /\ Len(UpdatesOf("ARCI")) = 3
    /\ OnlyBuys(UpdatesOf("ARCI"))
    /\ RowAfter > 0
    /\ portfolio[RowAfter].symbol = "ARCI"
    /\ portfolio[RowAfter].shares = R(6)
    /\ portfolio[RowAfter].avg = Q(7, 3)

\* the shares the last request's sale took off the position are not negative
SoldNotNegative == ~RGt0(updates[Len(updates)].shares_change)

Accounts == {"BCA", "Jago", "RDN"}

\* C5: a Transfer whose destination account is missing, or is not a listed
\* account, is rejected, and appends no ledger entry.
C5_BadDestinationRejected ==
    (LastKind = "Transfer" /\ last.td.destination_account \notin Accounts) =>
        /\ last.outcome = "error"
        /\ Len(LastEntries) = 0

\* C6: an Expense or Income request ends in success having appended exactly
\* one entry.  In USD the entry's amount is amount x the rate the rate service
\* returned and the note carries the USD amount (printed with two decimals);
\* otherwise the entry's amount is the record's amount, the note carries no
\* USD amount and the rate service is not called.
C6_RegularWritesOneEntry ==
    (LastKind \in {"Expense", "Income"}) =>
        /\ last.outcome = "success"
        /\ Len(LastEntries) = 1
        /\ LastEntries[1].type = LastKind
        /\ IF last.td.currency = "USD"
           THEN /\ last.rate_calls = 1
                /\ last.exchange_rate \in Rates
                /\ LastEntries[1].amount = RMul(last.td.amount, last.exchange_rate)
                /\ LastEntries[1].note.usd = Fmt2(last.td.amount)
           ELSE /\ last.rate_calls = 0
                /\ LastEntries[1].amount = last.td.amount
                /\ IsNone(LastEntries[1].note.usd)

\* C6 witness: an expense of 1/8 USD at rate 3 was entered as 3/8, and its
\* note carries 0.12
C6_Witness ==
    /\ LastKind = "Expense"
    /\ last.outcome = "success"
    /\ last.td.currency = "USD"
    /\ last.td.amount = Q(1, 8)
    /\ last.exchange_rate = R(3)
    /\ Len(LastEntries) = 1
    /\ LastEntries[1].amount = Q(3, 8)
    /\ LastEntries[1].note.usd = Q(3, 25)

---------------------------------------------------------------------------
(* Properties of the inference invoker (specification SpecInvoker) *)

\* the place of a backend in the list
ModelIndex(m) == CHOOSE i \in 1..Len(models) : models[i] = m

\* the errors of Errors that are rate-limit-shaped, named one by one: the text
\* holds '429', or in any case 'quota', 'rate' ('generate' does) or
\* 'resource_exhausted'
ThrottlingErrors ==
    {<<"4", "2", "9">>,
     <<"Q", "u", "o", "t", "a">>,
     <<"g", "e", "n", "e", "r", "a", "t", "e">>}

\* the sleeps made right after call k
SleepsAfter(k) == {j \in 1..Len(sleeps) : sleeps[j].after = k}

\* the calls made on a backend
CallsOn(m) == {k \in 1..Len(calls) : calls[k].model = m}

\* C7: the backends are tried in list order, starting with the primary: a call
\* is on the backend of the call before it or on the next one in the list, a
\* call is made only if every call before it failed, and a call that succeeds
\* is the last one made and ends the loop with its response.
C7_BackendsInListOrder ==
    /\ Len(calls) > 0 => calls[1].model = models[1]
    /\ \A k \in 1..Len(calls) - 1 :
        /\ ~calls[k].ok
        /\ ModelIndex(calls[k + 1].model) \in
               {ModelIndex(calls[k].model), ModelIndex(calls[k].model) + 1}
    /\ (Len(calls) > 0 /\ calls[Len(calls)].ok) => (ipc = "done" /\ response # NoneStr)
    /\ ipc = "done" => (Len(calls) > 0 /\ calls[Len(calls)].ok)
    /\ ipc \in {"call", "sleep"} => (Len(calls) = 0 \/ calls[Len(calls)].model = models[mi]
                                      \/ ModelIndex(calls[Len(calls)].model) + 1 = mi)

\* C7 witness: the primary and the first fallback failed, the second fallback
\* answered
C7_Witness ==
    /\ ipc = "done"
    /\ Len(calls) >= 3
    /\ calls[1].model = models[1]
    /\ \E k \in 1..Len(calls) : calls[k].model = models[2] /\ ~calls[k].ok
    /\ calls[Len(calls)].model = models[3]
    /\ calls[Len(calls)].ok

\* C8: a backend is called again only right after a rate-limit-shaped
\* failure on it, and at most max_retries (2) times in all; every wait follows
\* such a failure, is followed only by a call on the same backend, and lasts
\* initial_delay (2) seconds doubled once per earlier retry on that backend;
\* the delay is back at 2 seconds when a new backend is entered; no wait
\* follows a backend's last attempt.
C8_RetryOnlyWhenThrottled ==
    /\ \A m \in {models[i] : i \in 1..Len(models)} :
        Cardinality(CallsOn(m)) <= max_retries
    /\ \A k \in 1..Len(calls) - 1 :
        IF calls[k + 1].model = calls[k].model
        THEN /\ calls[k].error \in ThrottlingErrors
             /\ calls[k + 1].attempt = calls[k].attempt + 1
             /\ Cardinality(SleepsAfter(k)) = 1
        ELSE /\ calls[k + 1].attempt = 0
             /\ SleepsAfter(k) = {}
    /\ \A j \in 1..Len(sleeps) :
        LET k == sleeps[j].after
        IN  /\ k \in 1..Len(calls)
            /\ calls[k].error \in ThrottlingErrors
            /\ calls[k].attempt < max_retries - 1
            /\ sleeps[j].model = calls[k].model
            /\ sleeps[j].delay = initial_delay * 2 ^ calls[k].attempt
    /\ ipc = "call" => retry_delay = initial_delay * 2 ^ attempt
    /\ ipc = "raised" => SleepsAfter(Len(calls)) = {}

\* C8 witness: the primary was throttled twice, with one wait of 2 seconds in
\* between, and the first fallback is entered with the delay back at 2
C8_Witness ==
    /\ ipc = "call"
    /\ mi = 2
    /\ retry_delay = 2
    /\ Len(calls) = 2
    /\ calls[1].model = models[1] /\ calls[1].error \in ThrottlingErrors
    /\ calls[2].model = models[1] /\ calls[2].error \in ThrottlingErrors
    /\ Len(sleeps) = 1
    /\ sleeps[1].delay = 2
    /\ sleeps[1].after = 1

\* C9: after a call fails with an error that is not a rate-limit-shaped
\* failure, no wait is made and no further call goes to that backend: the next
\* call, if there is one, is on the next backend of the list, and after the
\* last backend the loop ends by raising.
C9_OtherErrorAbandonsBackend ==
    \A k \in 1..Len(calls) :
        (~calls[k].ok /\ calls[k].error \notin ThrottlingErrors) =>
            /\ SleepsAfter(k) = {}
            /\ \A n \in k + 1..Len(calls) : calls[n].model # calls[k].model
            /\ k < Len(calls) =>
                   ModelIndex(calls[k + 1].model) = ModelIndex(calls[k].model) + 1
            /\ k = Len(calls) =>
                   IF ModelIndex(calls[k].model) < Len(models)
                   THEN ipc = "call" /\ mi = ModelIndex(calls[k].model) + 1
                   ELSE ipc = "raised"

\* C9 witness: the primary failed once with '503' and the first fallback was
\* called next, with no wait
C9_Witness ==
    /\ Len(calls) >= 2
    /\ calls[1].model = models[1]
    /\ calls[1].error = <<"5", "0", "3">>
    /\ calls[2].model = models[2]
    /\ sleeps = <<>>

\* C10: when the loop ends by raising, every call has failed, every backend
\* has been called, there is no response, and the exception raised is the one
\* of the last call made, which is a call on the last backend.
C10_RaisesLastError ==
    ipc = "raised" =>
        /\ response = NoneStr
        /\ \A k \in 1..Len(calls) : ~calls[k].ok
        /\ \A i \in 1..Len(models) : CallsOn(models[i]) # {}
        /\ calls[Len(calls)].model = models[Len(models)]
        /\ raised = calls[Len(calls)].error
        /\ raised \in Errors

\* C10 witness: the loop raised 'denied' after earlier calls had failed with
\* other errors
C10_Witness ==
    /\ ipc = "raised"
    /\ raised = <<"d", "e", "n", "i", "e", "d">>
    /\ calls[1].error = <<"4", "2", "9">>
    /\ \E k \in 1..Len(calls) : calls[k].error = <<"5", "0", "3">>
    /\ calls[Len(calls)].error = raised

---------------------------------------------------------------------------
(* Properties of the response normalizer (specification SpecNormalizer) *)

LineKinds(lines) == [i \in 1..Len(lines) |-> lines[i].kind]

\* the document of a text that holds one
TheDoc(lines) == lines[CHOOSE i \in 1..Len(lines) : lines[i].kind = "doc"].doc

\* the text is one JSON object, bare or inside a fence
IsJsonObject(resp) ==
    /\ ~resp.text_is_none
    /\ LineKinds(resp.lines) \in {<<"doc">>, <<"fence", "doc">>, <<"fence", "doc", "fence">>}
    /\ TheDoc(resp.lines).top = "obj"

\* the confidence values float() accepts
UsableConfidence == {JMissing, JNum(Q(9, 10)), JStr(<<"0", ".", "9">>)}

\* the record can be built from the response without anything raising
ParsesToRecord(resp) ==
    /\ IsJsonObject(resp)
    /\ TheDoc(resp.lines).confidence \in UsableConfidence
    /\ TheDoc(resp.lines).amount # JNum(TooLarge)

ExceptionNames == {"JSONDecodeError", "AttributeError", "IndexError", "ValueError", "TypeError", "OverflowError"}

IsFallback(r) ==
    /\ r.amount = R(0)
    /\ r.transaction_type = "Expense"
    /\ r.is_flagged
    /\ r.confidence = R(0)
    /\ r.flag_reason \in {"AI response parsing error: " \o e : e \in ExceptionNames}

\* C11: once the normalizer has run on a response, no exception has left it;
\* and whenever the text is not a JSON object, or building the record
\* raises, the record returned is the fallback record (amount 0, 'Expense',
\* flagged, confidence 0, flag_reason naming the error).
C11_NormalizerAlwaysYieldsRecord ==
    npc = "done" =>
        /\ nexc = ""
        /\ ~ParsesToRecord(nresp) => IsFallback(nrec)

\* a JSON object whose confidence cannot be made a float ended as the fallback
C11_Witness ==
    /\ npc = "done"
    /\ IsJsonObject(nresp)
    /\ TheDoc(nresp.lines).confidence = JNull
    /\ nexc = ""
    /\ IsFallback(nrec)
    /\ nrec.flag_reason = "AI response parsing error: TypeError"

\* the values the amount normalizer cannot make a number of
Uncoercible ==
    {JList, JStr(<<"a", "b", "c">>), JStr(<<"l", "o", "t">>),
     JStr(<<"R", "p", " ", "2", "?">>)}

\* C12: a JSON object whose amount, shares or price_per_share cannot be
\* coerced to a number yields the flagged fallback record.
C12_UncoercibleGivesFallback ==
    (/\ npc = "done"
     /\ IsJsonObject(nresp)
     /\ \/ TheDoc(nresp.lines).amount \in Uncoercible
        \/ TheDoc(nresp.lines).shares \in Uncoercible
        \/ TheDoc(nresp.lines).price_per_share \in Uncoercible)
    => /\ nrec.amount = R(0)
       /\ nrec.transaction_type = "Expense"
       /\ nrec.is_flagged
       /\ nrec.confidence = R(0)

---------------------------------------------------------------------------
(* Properties of the exchange rate service (specification SpecRate) *)

\* the call found a cached rate of this age when it began
HadCache(c) == ~IsNone(c.seen_rate) /\ c.seen_ts # NoTime
AgeAtStart(c) == c.start - c.seen_ts

\* the call was answered from the cache, without a fetch
IsHit(c) == c.pc = "returned" /\ c.contacts = <<>>

\* C13: a call that begins while a cached rate exists whose age is strictly
\* less than the TTL returns the cached rate and contacts no provider; a
\* call that begins with no cached rate, or one aged the TTL or more,
\* attempts a fetch (the primary provider is contacted).
C13_FreshCacheAnswers ==
    \A p \in Callers :
        LET c == rcall[p]
        IN  c.pc # "idle" =>
              IF HadCache(c) /\ AgeAtStart(c) < CACHE_DURATION
              THEN c.pc = "returned" /\ c.ret = c.seen_rate /\ c.contacts = <<>>
              ELSE c.contacts # <<>> /\ c.contacts[1] = "primary"

\* one call was answered from a cache half an hour old, and another found
\* the cache exactly one hour old and went to the providers
C13_Witness ==
    \E p, q \in Callers :
        /\ IsHit(rcall[p]) /\ AgeAtStart(rcall[p]) = 1
        /\ rcall[p].ret = R(3)
        /\ HadCache(rcall[q]) /\ AgeAtStart(rcall[q]) = CACHE_DURATION
        /\ rcall[q].contacts # <<>>

\* answers that give no rate
PrimaryFailures ==
    {Answer(TRUE, 0, FALSE, JMissing), Answer(FALSE, 200, FALSE, JNum(R(3)))}
SecondaryFailures ==
    {Answer(TRUE, 0, FALSE, JMissing), Answer(FALSE, 200, FALSE, JNull)}

\* the call attempted a fetch and both providers failed
BothFailed(c) ==
    /\ c.pc = "returned"
    /\ c.primary \in PrimaryFailures
    /\ c.secondary \in SecondaryFailures

\* C14: when a fetch is attempted and both providers fail, the call returns
\* the cached rate if there is one, however old, and otherwise the fallback
\* constant: 16000, or the rate set_fallback_rate was last called with.
C14_BothFailGivesCachedOrFallback ==
    \A p \in Callers :
        LET c == rcall[p]
        IN  BothFailed(c) =>
              c.ret = IF ~IsNone(c.end_rate) THEN c.end_rate
                      ELSE IF IsNone(c.end_set) THEN R(16000)
                      ELSE c.end_set

\* one call got the fallback rate that had been set, another a stale rate
C14_Witness ==
    \E p, q \in Callers :
        /\ BothFailed(rcall[p]) /\ IsNone(rcall[p].end_rate)
        /\ rcall[p].end_set = R(5) /\ rcall[p].ret = R(5)
        /\ BothFailed(rcall[q]) /\ rcall[q].ret = R(3)
        /\ rcall[q].end - cache_timestamp >= CACHE_DURATION

\* C15: the secondary provider is contacted only after the primary, and only
\* if the primary failed or gave no usable value; when the primary gives a
\* usable rate the secondary is not contacted and that rate is the result.
C15_SecondaryOnlyAfterPrimaryFails ==
    \A p \in Callers :
        LET c == rcall[p]
        IN  /\ (\E i \in 1..Len(c.contacts) : c.contacts[i] = "secondary")
                 => /\ c.contacts = <<"primary", "secondary">>
                    /\ c.primary \in PrimaryFailures
            /\ c.primary = Answer(FALSE, 200, TRUE, JNum(R(3)))
                 => /\ c.contacts = <<"primary">>
                    /\ c.fetched = R(3)
                    /\ c.pc = "returned" => c.ret = R(3)

\* one call was served by the primary alone, another went on to the secondary
C15_Witness ==
    \E p, q \in Callers :
        /\ rcall[p].pc = "returned" /\ rcall[p].contacts = <<"primary">>
        /\ rcall[p].ret = R(3)
        /\ rcall[q].pc = "returned" /\ rcall[q].contacts = <<"primary", "secondary">>
        /\ rcall[q].ret = R(4)

\* a call that fetched a rate wrote it, with the time of the write, and
\* returned it
FetchStored ==
    \A p \in Callers :
        LET c == rcall[p]
        IN  (c.pc = "returned" /\ Truthy(c.fetched)) =>
              /\ c.ret = c.fetched
              /\ \E i \in (c.nstores + 1)..Len(stores) :
                    stores[i] = [rate |-> c.fetched, time |-> c.end]

\* the cache holds the rate and the time of the latest write
CacheIsLastStore ==
    Len(stores) > 0 =>
        /\ cached_rate = stores[Len(stores)].rate
        /\ cache_timestamp = stores[Len(stores)].time

\* C16 (as stated): a successful fetch overwrites the cached rate and the
\* timestamp and returns the new rate, and every later call begun within
\* the TTL of that fetch returns that same rate.
C16_LaterCallsReturnSameRate ==
    /\ FetchStored
    /\ CacheIsLastStore
    /\ \A p \in Callers :
          LET c == rcall[p]
          IN  IsHit(c) =>
                \A i \in 1..c.nstores :
                    c.start - stores[i].time < CACHE_DURATION
                        => c.ret = stores[i].rate

\* C16 (amended): a successful fetch overwrites the cached rate and the
\* timestamp and returns the new rate, and every later call that finds the
\* cache fresh returns the rate of the latest successful fetch before it,
\* which is written less than the TTL before the call.
C16_SuccessOverwritesCache ==
    /\ FetchStored
    /\ CacheIsLastStore
    /\ \A p \in Callers :
          LET c == rcall[p]
          IN  IsHit(c) =>
                /\ c.nstores > 0
                /\ c.ret = stores[c.nstores].rate
                /\ c.start - stores[c.nstores].time < CACHE_DURATION

\* two fetches that overlapped wrote different rates, and a call begun
\* within the TTL of both was answered with the second
C16_Witness ==
    \E p \in Callers :
        /\ IsHit(rcall[p])
        /\ rcall[p].nstores = 2
        /\ stores[1].rate # stores[2].rate
        /\ rcall[p].start - stores[1].time < CACHE_DURATION
        /\ rcall[p].ret = stores[2].rate

\* C17: get_usd_to_idr_rate never raises; a call that has ended has
\* returned a number, whatever the cache held and the providers answered.
C17_NeverRaises ==
    \A p \in Callers :
        /\ rcall[p].pc # "raised"
        /\ rcall[p].exc = ""
        /\ rcall[p].pc = "returned" => ~IsNone(rcall[p].ret)

\* both requests raised, nothing was cached, and the call returned 16000
C17_Witness ==
    \E p \in Callers :
        /\ rcall[p].pc = "returned"
        /\ rcall[p].primary.raises
        /\ rcall[p].secondary.raises
        /\ IsNone(rcall[p].end_rate)
        /\ rcall[p].ret = R(16000)

\* C18: every value get_usd_to_idr_rate returns is strictly positive.
C18_ReturnedRatePositive ==
    \A p \in Callers : rcall[p].pc = "returned" => RGt0(rcall[p].ret)

---------------------------------------------------------------------------
(* Further properties of the ledger update engine (specification Spec) *)

\* the currency of the buy that created the symbol's position
CreatedAs(symbol) ==
    LET buys == SelectSeq(UpdatesOf(symbol), LAMBDA u : RGt0(u.shares_change))
    IN  IF buys = <<>> THEN NoneStr ELSE buys[1].currency

\* C19: a Trade_Sell on an existing position that was bought in USD writes
\* both ledger entries converted: base_cost x rate, then capital_gain x rate,
\* and adds capital_gain, unconverted, to realized_pl.
C19_UsdSellEntriesConverted ==
    (/\ last.outcome = "success"
     /\ LastKind = "Trade_Sell"
     /\ ExplicitTrade
     /\ RowBefore > 0
     /\ CreatedAs(LastSymbol) = "USD")
    => LET old       == last.before[RowBefore]
           base_cost == RMul(last.td.shares, old.avg)
           gain      == RSub(last.td.amount, base_cost)
       IN  /\ Len(LastEntries) = 2
           /\ LastEntries[1].amount = RMul(base_cost, last.exchange_rate)
           /\ LastEntries[2].amount = RMul(gain, last.exchange_rate)
           /\ portfolio[RowAfter].realized_pl = RAdd(old.realized_pl, gain)

\* the currency the store takes a row to be in: USD iff Total Value (USD)
\* holds something truthy
PositionCurrency(row) == IF Truthy(row.tv_usd) THEN "USD" ELSE "IDR"

\* C20: every position is in the currency of the buy that created it,
\* whatever buys and sells came later, also once its shares are zero.
C20_CurrencyFixedAtCreation ==
    \A i \in 1..Len(portfolio) :
        PositionCurrency(portfolio[i]) = CreatedAs(portfolio[i].symbol)

\* C21: after any sequence of Trade_Buy and Trade_Sell requests no position
\* has negative shares: a sale of more shares than the position holds never
\* drives its shares below zero.
C21_SharesNeverNegative ==
    \A i \in 1..Len(portfolio) : SafeFloat(portfolio[i].shares)[1] >= 0

\* the ledger before the last request
LedgerBefore == SubSeq(ledger, 1, last.nBefore)

\* what the last request added to the summary's totals
IncomeGrowth  == RSub(TotalIncome(ledger), TotalIncome(LedgerBefore))
ExpenseGrowth == RSub(TotalExpense(ledger), TotalExpense(LedgerBefore))

\* the capital gain of the last request, a sale: the proceeds less the shares
\* sold at the average buy price, in the amount the ledger holds it in
LastGain ==
    LET basis == RMul(SellShares(last.td, last.before),
                      AvgBuyPrice(last.td, last.before))
        gain  == RSub(last.td.amount, basis)
    IN  IF SellCurrency(last.td, last.before) = "USD"
        THEN RMul(gain, last.exchange_rate) ELSE gain

\* C30: a Trade_Buy, a Trade_Sell and a Transfer leave the summary's
\* total_expense as it was; a Trade_Sell that is saved adds its capital gain,
\* never the full proceeds, to total_income, and a Trade_Buy and a Transfer add
\* nothing to it.
C30_TradesDoNotDistortSummary ==
    LastKind \in {"Trade_Buy", "Trade_Sell", "Transfer"}
    => /\ ExpenseGrowth = R(0)
       /\ IncomeGrowth = IF LastKind = "Trade_Sell" /\ last.outcome = "success"
                         THEN LastGain ELSE R(0)

\* a sale at a gain that is neither zero nor the proceeds, on a ledger that
\* already holds income
C30_Witness ==
    /\ LastKind = "Trade_Sell"
    /\ last.outcome = "success"
    /\ RowBefore > 0
    /\ Truthy(TotalIncome(LedgerBefore))
    /\ IncomeGrowth = R(3)
    /\ last.td.amount = R(5)

---------------------------------------------------------------------------
(* Properties of the trade reconciliation (specification SpecTrade) *)

\* the update_investment call of the last request
LastUpdate == updates[Len(updates)]

BothMissing  == IsNone(last.td.shares) /\ IsNone(last.td.price_per_share)
SharesMissing == IsNone(last.td.shares) /\ ~IsNone(last.td.price_per_share)
PriceMissing  == ~IsNone(last.td.shares) /\ IsNone(last.td.price_per_share)

\* C22: no ledger entry and no position row is written for a trade whose
\* investment_symbol is null or empty.
C22_TradesHaveSymbol ==
    /\ \A k \in 1..Len(ledger) :
           ledger[k].note.head \in {"Buy", "Sell"} => TruthyStr(ledger[k].note.arg)
    /\ \A i \in 1..Len(portfolio) : TruthyStr(portfolio[i].symbol)

\* C23: a Trade_Buy reaches the position update with shares = amount / price
\* when shares is missing and price is positive, with price = amount / shares
\* when price is missing and shares is positive, with shares = 1 and
\* price = amount when both are missing, and with both unchanged when both are
\* given.  (A price that is given but not positive, with shares missing, is
\* none of the four cases.)
C23_BuyReconciliation ==
    (/\ LastKind = "Trade_Buy"
     /\ ~(SharesMissing /\ ~RGt0(last.td.price_per_share)))
    => /\ last.outcome = "success"
       /\ LastUpdate.symbol = LastSymbol
       /\ LastUpdate.shares_change =
              (IF BothMissing THEN R(1)
               ELSE IF SharesMissing /\ RGt0(last.td.price_per_share)
               THEN RDiv(last.td.amount, last.td.price_per_share)
               ELSE last.td.shares)
       /\ LastUpdate.price =
              (IF BothMissing THEN last.td.amount
               ELSE IF PriceMissing /\ RGt0(last.td.shares)
               THEN RDiv(last.td.amount, last.td.shares)
               ELSE last.td.price_per_share)

\* each of the four cases has happened: the position was bought into with
\* derived shares, derived price, the placeholder and the given values
C23_Witness ==
    /\ LastKind = "Trade_Buy"
    /\ PriceMissing
    /\ LastUpdate.price = R(2)
    /\ Len(updates) = 3
    /\ updates[1].shares_change = R(2) /\ updates[1].price = R(3)
    /\ updates[2].shares_change = R(2) /\ updates[2].price = R(2)

\* C24: the ledger entry of a Trade_Buy that had neither shares nor price is
\* written with status 'Flagged', also when the record was not flagged.
C24_PlaceholderBuyIsFlagged ==
    (LastKind = "Trade_Buy" /\ BothMissing /\ last.outcome = "success")
    => /\ Len(LastEntries) = 1
       /\ LastEntries[1].status = "Flagged"

\* C25: a Trade_Sell with neither shares nor price sells amount / avg_cost
\* shares of a position whose avg_cost is positive, so the Asset entry is the
\* amount, the gain entry is 0 and realized_pl stays; with no such position it
\* sells 1 share at the amount.
C25_SellFallsBackToAvgCost ==
    (LastKind = "Trade_Sell" /\ BothMissing)
    => /\ last.outcome = "success"
       /\ Len(LastEntries) = 2
       /\ IF RowBefore > 0 /\ RGt0(last.before[RowBefore].avg)
          THEN LET old == last.before[RowBefore]
               IN  /\ LastUpdate.shares_change = RNeg(RDiv(last.td.amount, old.avg))
                   /\ LastUpdate.price = old.avg
                   /\ LastEntries[1].amount = last.td.amount
                   /\ LastEntries[2].amount = R(0)
                   /\ portfolio[RowAfter].realized_pl = old.realized_pl
                   /\ portfolio[RowAfter].shares =
                          RSub(old.shares, RDiv(last.td.amount, old.avg))
          ELSE /\ LastUpdate.shares_change = R(-1)
               /\ LastUpdate.price = last.td.amount

\* a position at avg_cost 3 with a realized gain, sold for 6 with neither
\* shares nor price: 2 shares go
C25_Witness ==
    /\ LastKind = "Trade_Sell"
    /\ BothMissing
    /\ RowBefore > 0
    /\ last.before[RowBefore].avg = R(3)
    /\ Truthy(last.before[RowBefore].realized_pl)
    /\ LastUpdate.shares_change = R(-2)
    /\ LastEntries[2].amount = R(0)

---------------------------------------------------------------------------
(* Properties of the webhook (specification SpecWebhook) *)

\* the request of task p ended in an exception
Errored(p) == tasks[p].exc # ""

\* the webhook of task p has answered
Answered(p) == tasks[p].pc = "done"

\* the append_transaction calls among the first k store calls of task p
AppendsDone(p) ==
    {i \in 1..tasks[p].k : tasks[p].ops[i].op = "append"}

\* C26: when a store call of a request fails, the entries the request has
\* appended stay in the ledger, no store call of the request was made twice,
\* and the request is answered with an error.
C26_PartialWritesStay ==
    \A p \in Tasks :
        Errored(p)
        => LET t == tasks[p]
           IN  /\ \A j \in 1..Len(t.wrote) :
                      \E n \in 1..Len(ledger) : ledger[n] = t.wrote[j]
               /\ Len(t.wrote) = Cardinality(AppendsDone(p))
               /\ \A i, j \in 1..Len(t.attempted) :
                      i < j => t.attempted[i] < t.attempted[j]
               /\ t.pc \in {"error", "done"}
               /\ Answered(p) => /\ t.response.status = "error"
                                 /\ t.sent.kind = "error"

\* a Transfer whose second entry failed and a Trade_Sell whose position update
\* failed, both answered: one and two entries are in the ledger
C26_Witness ==
    \E p, q \in Tasks :
        /\ Answered(p) /\ Errored(p)
        /\ tasks[p].td.transaction_type = "Transfer"
        /\ tasks[p].attempted = <<1, 2>>
        /\ Len(tasks[p].wrote) = 1
        /\ Answered(q) /\ Errored(q)
        /\ tasks[q].td.transaction_type = "Trade_Sell"
        /\ tasks[q].attempted = <<1, 2, 3>>
        /\ Len(tasks[q].wrote) = 2
        /\ Len(ledger) = 3

\* what the caller is told of task p: the answer and the Telegram message
Report(p) == <<tasks[p].response, tasks[p].sent>>

\* C27: the error reported for a request whose store call failed tells which
\* of its entries were written: two requests that are told the same have
\* written the same number of entries.
C27_ErrorTellsWhatWasWritten ==
    \A p, q \in Tasks :
        (/\ Answered(p) /\ Errored(p)
         /\ Answered(q) /\ Errored(q)
         /\ tasks[p].td = tasks[q].td
         /\ Report(p) = Report(q))
        => Len(tasks[p].wrote) = Len(tasks[q].wrote)

\* C28: the confirmation of a flagged record that was saved carries the
\* record's flag_reason.
C28_ConfirmationCarriesFlagReason ==
    \A p \in Tasks :
        (/\ Answered(p)
         /\ tasks[p].response.status = "success"
         /\ tasks[p].td.is_flagged)
        => /\ tasks[p].sent.kind = "confirmation"
           /\ tasks[p].sent.flag_reason = tasks[p].td.flag_reason
           /\ tasks[p].sent.shown = tasks[p].td.flag_reason

\* task p is between a read of the position and the write that follows it
BetweenReadAndWrite(p) ==
    /\ tasks[p].pc = "run"
    /\ \/ tasks[p].reading
       \/ tasks[p].td.transaction_type = "Trade_Sell" /\ tasks[p].planned

\* tasks p and q serve trades of one symbol
SameSymbol(p, q) ==
    /\ tasks[p].td.transaction_type \in {"Trade_Buy", "Trade_Sell"}
    /\ tasks[q].td.transaction_type \in {"Trade_Buy", "Trade_Sell"}
    /\ tasks[p].td.investment_symbol = tasks[q].td.investment_symbol

---------------------------------------------------------------------------
(* Properties of transfers (specification Spec) *)

\* C31: a transfer from account A to account B that is saved has written
\* exactly two entries, one on A and one on B, whose amounts sum to zero: the
\* debit on A is the negative of the credit on B.
C31_TransferEntriesSumToZero ==
    (/\ LastKind = "Transfer"
     /\ last.outcome = "success"
     /\ TruthyStr(last.td.destination_account))
    => /\ Len(LastEntries) = 2
       /\ LastEntries[1].account = last.td.account
       /\ LastEntries[2].account = last.td.destination_account
       /\ RAdd(LastEntries[1].amount, LastEntries[2].amount) = R(0)


---------------------------------------------------------------------------
(* Properties of the normalizer on its own output (specification            *)
(* SpecNormalizer)                                                          *)

\* C32: when the normalizer is given the JSON text of a fallback record it
\* returned, no exception leaves it and the record it returns equals the
\* fallback record in every field (amount 0, 'Expense', flagged, confidence
\* 0, the same flag_reason, and all the other fields).
C32_FallbackRecordRoundTrips ==
    (npc = "fed" /\ IsFallback(nfed)) => (nexc = "" /\ nrec = nfed)

C32_Witness ==
    /\ npc = "fed"
    /\ IsFallback(nfed)
    /\ nfed.flag_reason = "AI response parsing error: JSONDecodeError"
    /\ nfed.note = "Failed to parse extraction"
    /\ nrec = nfed


---------------------------------------------------------------------------
(* Properties of the amount normalizer (specification SpecParse) *)

\* C33: _parse_float never raises: whatever value it was given (None, a
\* number, a boolean, a list, any string), it ended by returning a float or
\* None.
C33_ParseFloatNeverRaises ==
    fpc = "done" => fresult.exc = ""

\* what _parse_float returned for the string the call was given
GivenStr(s) == fpc = "done" /\ fvalue = JStr(s)

\* the result of _parse_float on the string s
Parsed(s) == ParseFloat(JStr(s)).v

\* C34: on a string, _parse_float ignores letter case, commas, '$' and the
\* 'rp' prefix; a string that holds 'k' is worth 1000 times the number left
\* once every 'k' is removed and nothing else (so a 'jt' beside it makes it
\* None: one suffix at most), a string without 'k' that holds 'jt' is worth
\* 1,000,000 times the number left; "20k" gives 20000, "1.5jt" 1500000,
\* "$100" 100.
C34_StripsThenOneSuffix ==
    (fpc = "done" /\ fvalue.t = "str") =>
        /\ fresult.exc = ""
        /\ fresult.v = Parsed(LowerStr(fvalue.s))
        /\ fresult.v = Parsed(RemoveChar(fvalue.s, ","))
        /\ fresult.v = Parsed(RemoveChar(fvalue.s, "$"))
        /\ fresult.v = Parsed(<<"R", "p">> \o fvalue.s)
        /\ HasK(LowerStr(fvalue.s)) =>
              /\ fresult.v = Times(StrToFloat(RemoveChar(Cleaned(fvalue.s), "k")), R(1000))
              /\ HasJt(Cleaned(fvalue.s)) => fresult.v = None
        /\ (~HasK(LowerStr(fvalue.s)) /\ HasJt(Cleaned(fvalue.s))) =>
              fresult.v = Times(StrToFloat(RemovePair(Cleaned(fvalue.s), "j", "t")), R(1000000))
        /\ GivenStr(<<"2", "0", "k">>) => fresult.v = R(20000)
        /\ GivenStr(<<"1", ".", "5", "j", "t">>) => fresult.v = R(1500000)
        /\ GivenStr(<<"$", "1", "0", "0">>) => fresult.v = R(100)
        /\ GivenStr(<<"R", "p", " ", "5", "0", ",", "0", "0", "0">>) => fresult.v = R(50000)
        /\ GivenStr(<<"r", "P", "2", "0", "K">>) => fresult.v = R(20000)
        /\ GivenStr(<<"1", "5", "k", "j", "t">>) => fresult.v = None

\* "rP20K" was parsed: prefix and suffix in either case
C34_Witness ==
    /\ GivenStr(<<"r", "P", "2", "0", "K">>)
    /\ fresult = [exc |-> "", v |-> R(20000)]


---------------------------------------------------------------------------
(* Termination of the inference loop (specification SpecInvokerFair) *)

InLoop  == ipc \in {"call", "sleep"}
LoopEnded == ipc \in {"done", "raised"}

\* no backend was called more than max_retries times, so no more than
\* max_retries calls per backend of the list were made in all
CallsBounded ==
    /\ \A i \in 1..Len(models) : Cardinality(CallsOn(models[i])) <= max_retries
    /\ Len(calls) <= max_retries * Len(models)

\* the loop ended with a response, or by raising
EndedProperly ==
    /\ ipc = "done" => (response # NoneStr /\ raised = NoErr)
    /\ ipc = "raised" => (response = NoneStr /\ raised # NoErr)

\* C35: whatever the backends answer, the inference loop makes at most 2
\* calls per backend (6 over the three), and once entered it always ends,
\* with a response or by raising; a backend that keeps rate-limiting is
\* left after its second call.
C35_LoopTerminates ==
    /\ [](CallsBounded /\ EndedProperly)
    /\ InLoop ~> LoopEnded

\* every backend rate-limited twice: six calls, three waits, then the raise
C35_Witness ==
    /\ ipc = "raised"
    /\ Len(calls) = 6
    /\ Len(sleeps) = 3
    /\ \A k \in 1..6 : calls[k].error \in ThrottlingErrors


\* the inference of task p's request failed on every backend
InferenceFailed(p) == tasks[p].exc = InferenceError

\* task p's request made no store call, wrote no entry, was given no date
\* and no exchange rate
NothingDone(p) ==
    /\ tasks[p].attempted = <<>>
    /\ tasks[p].wrote = <<>>
    /\ tasks[p].k = 0
    /\ ~tasks[p].planned
    /\ tasks[p].exchange_rate = None
    /\ tasks[p].date = ""

\* C36: a request whose inference failed on every backend ends as an error
\* at the webhook (error answer, error message to the user), having made no
\* store call (no ledger entry, no position change) and without awaiting the
\* exchange rate service; its inference is not run again: the task runs the
\* inference next only for a new update.
C36_InferenceFailureWritesNothing ==
    /\ [](\A p \in Tasks :
            InferenceFailed(p)
            => /\ NothingDone(p)
               /\ tasks[p].pc \in {"error", "done"}
               /\ Answered(p) => /\ tasks[p].response = Response("error", StrOf(InferenceError))
                                 /\ tasks[p].sent = ErrorNotice)
    /\ [][\A p \in Tasks :
            (InferenceFailed(p) /\ tasks'[p] # tasks[p])
            => \/ (tasks[p].pc = "error" /\ tasks'[p].pc = "done"
                   /\ UNCHANGED <<ledger, portfolio, nupd>>)
               \/ (tasks[p].pc = "done" /\ tasks'[p].pc = "ai"
                   /\ nupd' = nupd + 1)]_vars

\* a USD request whose inference failed was answered with the error while
\* the ledger holds nothing
C36_Witness ==
    \E p \in Tasks :
        /\ InferenceFailed(p)
        /\ Answered(p)
        /\ tasks[p].td.currency = "USD"
        /\ tasks[p].response.status = "error"
        /\ ledger = <<>>
        /\ portfolio = <<>>


---------------------------------------------------------------------------
(* The rate cache over time (specification SpecRate) *)

CacheSet == ~IsNone(cached_rate)

\* the call ended while a cached rate existed
EndedWithCache(c) == c.pc = "returned" /\ ~IsNone(c.end_rate)

\* C37: whatever the interleaving of the calls, the cached rate is set
\* exactly when the cache timestamp is set; once set, neither is cleared
\* again; and a call that ends while a cached rate exists returns the rate
\* it fetched or the cached rate, never the fallback constant.
C37_CacheSetTogetherAndKept ==
    /\ [](CacheSet <=> cache_timestamp # NoTime)
    /\ [][CacheSet => (~IsNone(cached_rate') /\ cache_timestamp' # NoTime)]_vars
    /\ [](\A p \in Callers :
            EndedWithCache(rcall[p])
            => /\ rcall[p].ret \in {rcall[p].end_rate, rcall[p].fetched}
               /\ ~IsNone(rcall[p].ret)
               /\ rcall[p].ret \notin {DEFAULT_FALLBACK_RATE} \cup FallbackRates)

\* the fallback constant was returned before the first store, and a later
\* call whose providers both failed returned the cached rate
C37_Witness ==
    \E p, q \in Callers :
        /\ rcall[p].pc = "returned"
        /\ IsNone(rcall[p].end_rate)
        /\ ~Truthy(rcall[p].fetched)
        /\ rcall[p].ret = DEFAULT_FALLBACK_RATE
        /\ BothFailed(rcall[q])
        /\ rcall[q].nstores = 1
        /\ rcall[q].ret = cached_rate
        /\ cache_timestamp # NoTime

\* the call began on a cached rate whose TTL had expired
BeganStale(c) ==
    /\ c.pc # "idle"
    /\ HadCache(c)
    /\ AgeAtStart(c) >= CACHE_DURATION

\* caller p's call ends in this step without a fetched rate
EndsUnfetched(p) ==
    /\ rcall[p].pc = "fetched"
    /\ rcall'[p].pc = "returned"
    /\ ~Truthy(rcall[p].fetched)

\* C38: a refresh that fails leaves the cached rate and the cache timestamp
\* as they were and returns the (stale) cached rate; so the timestamp stays
\* that of the last successful fetch, and every call that begins once the
\* TTL has expired contacts the providers, until a fetch succeeds.
C38_FailedRefreshKeepsCache ==
    /\ [][\A p \in Callers :
            EndsUnfetched(p)
            => /\ UNCHANGED <<cached_rate, cache_timestamp, stores>>
               /\ CacheSet => rcall'[p].ret = cached_rate]_vars
    /\ [](CacheIsLastStore)
    /\ [](\A p \in Callers :
            BeganStale(rcall[p]) => /\ rcall[p].contacts # <<>>
                                    /\ rcall[p].contacts[1] = "primary")

\* two calls began after the one store, on the expired cache; one has ended
\* with both providers failed and returned the stale rate, the other is
\* contacting the providers; the timestamp is still that of the store
C38_Witness ==
    \E p, q \in Callers :
        /\ BothFailed(rcall[p])
        /\ BeganStale(rcall[p])
        /\ rcall[p].nstores = 1
        /\ rcall[p].ret = stores[1].rate
        /\ rcall[q].pc = "primary"
        /\ BeganStale(rcall[q])
        /\ Len(stores) = 1
        /\ cache_timestamp = stores[1].time
        /\ clock - cache_timestamp >= CACHE_DURATION


---------------------------------------------------------------------------
(* Sales without a position (specification Spec) *)

\* C39: a Trade_Sell that names shares and price, on a symbol that has no
\* position row, ends in success having appended the two entries, the
\* 'Asset' entry of base_cost = shares x price and the 'Income' entry of
\* amount - base_cost (both times the rate for a USD record), and leaves the
\* portfolio as it was: no row is created, and the gain handed to
\* update_investment is recorded on no position.
C39_SellWithoutPositionWritesNoRow ==
    (LastKind = "Trade_Sell" /\ ExplicitTrade /\ RowBefore = 0) =>
        LET base_cost    == RMul(last.td.shares, last.td.price_per_share)
            capital_gain == RSub(last.td.amount, base_cost)
            rate         == IF last.td.currency = "USD" THEN last.exchange_rate
                            ELSE R(1)
        IN  /\ last.outcome = "success"
            /\ Len(LastEntries) = 2
            /\ LastEntries[1].type = "Asset"
            /\ LastEntries[1].amount = RMul(base_cost, rate)
            /\ LastEntries[2].type = "Income"
            /\ LastEntries[2].amount = RMul(capital_gain, rate)
            /\ portfolio = last.before
            /\ RowAfter = 0
            /\ updates[Len(updates)].symbol = LastSymbol
            /\ updates[Len(updates)].realized_pl = capital_gain

\* 3 shares of ARCI sold at 2 for 6 while only AAPL is held: entries of 6
\* and 0, and the portfolio still holds the one row
C39_Witness ==
    /\ LastKind = "Trade_Sell"
    /\ LastSymbol = "ARCI"
    /\ last.td.shares = R(3)
    /\ last.outcome = "success"
    /\ RowBefore = 0
    /\ Len(last.before) = 1
    /\ portfolio = last.before
    /\ Len(LastEntries) = 2
    /\ LastEntries[1].amount = R(6)
    /\ LastEntries[2].amount = R(0)

---------------------------------------------------------------------------
(* Purchases whose shares cannot be derived (specification SpecTrade) *)

\* the price is given and is not positive
PriceNotPositive ==
    ~IsNone(last.td.price_per_share) /\ ~RGt0(last.td.price_per_share)

\* C40: a Trade_Buy whose shares is missing and whose price is given but not
\* positive appends its one 'Asset' entry of the amount, then fails in the
\* position update: the request ends in error, the entry stays in the ledger
\* and the portfolio is as it was.
C40_BuyEntryPrecedesFailedUpdate ==
    (LastKind = "Trade_Buy" /\ IsNone(last.td.shares) /\ PriceNotPositive
     /\ TruthyStr(LastSymbol))
    => /\ last.outcome = "error"
       /\ Len(LastEntries) = 1
       /\ LastEntries[1].type = "Asset"
       /\ LastEntries[1].amount = last.td.amount
       /\ LastEntries[1].note.head = "Buy"
       /\ portfolio = last.before

\* a buy of ARCI at price 0 without shares, while ARCI is held: the entry of
\* 6 is in the ledger and the row is as it was
C40_Witness ==
    /\ LastKind = "Trade_Buy"
    /\ IsNone(last.td.shares)
    /\ last.td.price_per_share = R(0)
    /\ RowBefore > 0
    /\ last.outcome = "error"
    /\ Len(LastEntries) = 1
    /\ LastEntries[1].amount = R(6)
    /\ portfolio = last.before

====
